---------------------------- MODULE Spec2Model ----------------------------
(***************************************************************************)
(* Model of the typed extraction pipeline of the document parsing service: *)
(* cleanJSONResponse (response sanitation), json.Unmarshal into the result *)
(* records of pkg/models, and ParseDocumentWithGeminiMultimodal (one       *)
(* extraction call around one model invocation).                           *)
(*                                                                         *)
(* Text.  A Go string is modelled as a sequence of lexemes.  The           *)
(* characters the code inspects one by one are lexemes of their own: the   *)
(* backtick, the letters of the language tag, white space, the JSON        *)
(* punctuation and the double quote.  Any other lexeme ("title", "Box 4",  *)
(* "true", "maybe", ...) stands for a run of ordinary characters that      *)
(* holds no backtick and no quote and is never inspected in part; in the   *)
(* inputs used here such a run is always preceded by a quote, a colon or a *)
(* blank, never directly by a fence.                                       *)
(***************************************************************************)
EXTENDS Integers, Sequences, FiniteSets, TLC

VARIABLES
    cin,        \* sanitizer harness: the string handed to cleanJSONResponse
    cwrap,      \* sanitizer harness: how cin was built ("free", or the wrapping of cbody)
    cbody,      \* sanitizer harness: the JSON text that was wrapped (cin when free)
    cout,       \* sanitizer harness: cleanJSONResponse(cin)
    cout2,      \* sanitizer harness: cleanJSONResponse(cout)
    cstage,     \* sanitizer harness: "in" | "cleaned" | "twice"
    pc,         \* extraction call: "idle" | "awaiting" | "done"
    req,        \* extraction call: the arguments of the call
    modelCalls, \* number of GenerateContent invocations made by the call
    sent,       \* the prompt parts and settings handed to GenerateContent
    resp,       \* what GenerateContent returned
    jsonStr,    \* the local jsonStr after cleanJSONResponse
    steps,      \* the steps of the function body executed so far, in order
    logs,       \* the log.Printf lines written by the call
    ret,        \* the (T, error) pair returned by the call
    din,        \* decode harness: the members of the JSON object the model answers with
    hpc,        \* parse handler: "idle" | "parsing" | "responded"
    hreq,       \* parse handler: the inbound request
    hresp,      \* parse handler: the status and body written to the ResponseWriter
    ctx,        \* parse handler: the state of r.Context(), and the context the model call got
    fin,        \* finalize handler: its request, its response and the calls to the store
    calls,      \* concurrent calls: the locals of each call in flight
    sharedLog   \* concurrent calls: the lines written to the standard logger, in order

cleanVars == <<cin, cwrap, cbody, cout, cout2, cstage>>
callVars == <<pc, req, modelCalls, sent, resp, jsonStr, steps, logs, ret>>
decodeVars == <<din>>
handlerVars == <<hpc, hreq, hresp, ctx, fin>>
concVars == <<calls, sharedLog>>
vars == <<cin, cwrap, cbody, cout, cout2, cstage, pc, req, modelCalls, sent, resp, jsonStr, steps, logs, ret,
          din, hpc, hreq, hresp, ctx, fin, calls, sharedLog>>

---------------------------------------------------------------------------
(* Bounds of the model. *)

\* longest input of the sanitizer harness, counted in pieces (fence, tag, blank, ...)
MaxPieces == 4

\* most members of a generated compact JSON object
MaxMembers == 2

---------------------------------------------------------------------------
(* package strings *)

\* unicode.IsSpace on the characters modelled
WhiteSpace == {" ", "\n", "\t"}

RECURSIVE TrimLeftSpace(_)
\* strings.TrimLeftFunc(s, unicode.IsSpace), the first half of TrimSpace
TrimLeftSpace(s) ==
    IF s # <<>> /\ Head(s) \in WhiteSpace THEN TrimLeftSpace(Tail(s)) ELSE s

RECURSIVE TrimRightSpace(_)
\* strings.TrimRightFunc(s, unicode.IsSpace), the second half of TrimSpace
TrimRightSpace(s) ==
    IF s # <<>> /\ s[Len(s)] \in WhiteSpace
    THEN TrimRightSpace(SubSeq(s, 1, Len(s) - 1))
    ELSE s

\* a TrimSpace that forgets the right end
TrimSpace_LeftOnly(s) == TrimLeftSpace(s)

\* strings.TrimSpace
TrimSpace(s) == TrimRightSpace(TrimLeftSpace(s))

\* strings.HasPrefix
HasPrefix(s, prefix) ==
    Len(s) >= Len(prefix) /\ SubSeq(s, 1, Len(prefix)) = prefix

\* strings.HasSuffix
HasSuffix(s, suffix) ==
    Len(s) >= Len(suffix) /\ SubSeq(s, Len(s) - Len(suffix) + 1, Len(s)) = suffix

\* strings.TrimPrefix: s without the prefix when it has it, else s
TrimPrefix(s, prefix) ==
    IF HasPrefix(s, prefix) THEN SubSeq(s, Len(prefix) + 1, Len(s)) ELSE s

\* a TrimSuffix that never strips
TrimSuffix_Keep(s, suffix) == s

\* strings.TrimSuffix: s without the suffix when it has it, else s
TrimSuffix(s, suffix) ==
    IF HasSuffix(s, suffix) THEN SubSeq(s, 1, Len(s) - Len(suffix)) ELSE s

---------------------------------------------------------------------------
(* cleanJSONResponse *)

\* the backtick character, U+0060 (a string of the model cannot hold it)
Tick == "tick"

\* the fence marker: three backticks
Fence == <<Tick, Tick, Tick>>

\* the fence marker followed by the lower-case tag json
FenceJson == Fence \o <<"j", "s", "o", "n">>

\* a sanitation that trims white space and leaves the fence in place
cleanJSONResponse_TrimOnly(response) == TrimSpace(response)

\* a sanitation that returns what is left once the trailing fence is stripped
cleanJSONResponse_NoFinalTrim(s) ==
    LET a == TrimPrefix(TrimSpace(s), FenceJson)
        b == TrimPrefix(TrimSpace(a), Fence)
    IN  TrimSuffix(TrimSpace(b), Fence)

\* cleanJSONResponse: trim, strip a leading fence with the json tag, trim,
\* strip a leading fence, trim, strip a trailing fence, trim
cleanJSONResponse(s) ==
    LET a == TrimPrefix(TrimSpace(s), FenceJson)
        b == TrimPrefix(TrimSpace(a), Fence)
        c == TrimSuffix(TrimSpace(b), Fence)
    IN  TrimSpace(c)

---------------------------------------------------------------------------
(* Texts: builders of the inputs. *)

RECURSIVE Flatten(_)
\* the concatenation of a sequence of strings
Flatten(ss) == IF ss = <<>> THEN <<>> ELSE Head(ss) \o Flatten(Tail(ss))

\* a JSON string literal: the content between two double quotes
Str(content) == <<"\"">> \o content \o <<"\"">>

\* one member of a JSON object, compact: "key":value
Member(key, value) == Str(key) \o <<":">> \o value

RECURSIVE JoinMembers(_)
\* members separated by commas
JoinMembers(ms) ==
    IF ms = <<>> THEN <<>>
    ELSE IF Len(ms) = 1 THEN Head(ms)
    ELSE Head(ms) \o <<",">> \o JoinMembers(Tail(ms))

\* a compact JSON object text: {"k":v,"k":v}
Object(ms) == <<"{">> \o JoinMembers(ms) \o <<"}">>

\* the language tags a model may write after the opening fence; <<>> is no tag
TagLower == <<"j", "s", "o", "n">>
TagUpper == <<"J", "S", "O", "N">>
TagTitle == <<"J", "s", "o", "n">>
NoTag == <<>>

\* a fenced block as the model writes it: fence, tag, newline, body, newline, fence
Fenced(tag, body) == Fence \o tag \o <<"\n">> \o body \o <<"\n">> \o Fence

\* the members the generated compact objects are built from
GenMembers ==
    { Member(k, v) :
        k \in {<<"key">>, <<"Box 4">>},
        v \in {Str(<<"value">>), Str(<<>>), Str(Fence), <<"true">>} }

\* compact JSON object texts with at most MaxMembers members
CompactObjects ==
    UNION { { Object(f) : f \in [1..n -> GenMembers] } : n \in 0..MaxMembers }

\* the pieces the free-form sanitizer inputs are built from
Pieces == {Fence, TagLower, TagUpper, <<" ">>, <<"\n">>, <<"{", "}">>, <<"x">>}

\* every concatenation of at most MaxPieces pieces
PieceStrings ==
    UNION { { Flatten(f) : f \in [1..n -> Pieces] } : n \in 0..MaxPieces }

\* the ways the harness wraps a compact JSON object
WrapKinds == {"bare", "fence", "fence-json", "fence-JSON", "fence-Json"}

\* the text of a JSON object wrapped in one of these ways
Wrap(kind, body) ==
    CASE kind = "bare" -> body
      [] kind = "fence" -> Fenced(NoTag, body)
      [] kind = "fence-json" -> Fenced(TagLower, body)
      [] kind = "fence-JSON" -> Fenced(TagUpper, body)
      [] kind = "fence-Json" -> Fenced(TagTitle, body)

\* whether the string holds the fence marker anywhere
HasFence(s) == \E i \in 1..Len(s) : HasPrefix(SubSeq(s, i, Len(s)), Fence)

---------------------------------------------------------------------------
(* package models: the result records and the document types *)

JobDetailsType == "job_details"

Form941Type == "form_941"

\* a JobDetails struct without fields
JobDetailsFields_NoFields == <<>>

\* type JobDetails struct: the json key and the Go kind of each field, in order
JobDetailsFields ==
    << [key |-> "title", kind |-> "string"],
       [key |-> "salary", kind |-> "string"],
       [key |-> "location", kind |-> "string"],
       [key |-> "experience", kind |-> "string"],
       [key |-> "employment-type", kind |-> "string"] >>

\* a Form941 struct whose Box5f field carries the tag of Box5e
Form941Fields_DupTag ==
    << [key |-> "EIN", kind |-> "string"],
       [key |-> "Name", kind |-> "string"],
       [key |-> "Trade Name", kind |-> "string"],
       [key |-> "Address", kind |-> "string"],
       [key |-> "Box 1", kind |-> "string"],
       [key |-> "Box 2", kind |-> "string"],
       [key |-> "Box 3", kind |-> "string"],
       [key |-> "Box 4", kind |-> "bool"],
       [key |-> "Box 5e", kind |-> "string"],
       [key |-> "Box 5e", kind |-> "string"],
       [key |-> "Box 6", kind |-> "string"],
       [key |-> "Box 7", kind |-> "string"],
       [key |-> "Box 8", kind |-> "string"],
       [key |-> "Box 9", kind |-> "string"],
       [key |-> "Box 10", kind |-> "string"],
       [key |-> "Box 11", kind |-> "string"],
       [key |-> "Box 12", kind |-> "string"],
       [key |-> "Box 13", kind |-> "string"],
       [key |-> "Box 14", kind |-> "string"] >>

\* type Form941 struct: the json key and the Go kind of each field, in order
Form941Fields ==
    << [key |-> "EIN", kind |-> "string"],
       [key |-> "Name", kind |-> "string"],
       [key |-> "Trade Name", kind |-> "string"],
       [key |-> "Address", kind |-> "string"],
       [key |-> "Box 1", kind |-> "string"],
       [key |-> "Box 2", kind |-> "string"],
       [key |-> "Box 3", kind |-> "string"],
       [key |-> "Box 4", kind |-> "bool"],
       [key |-> "Box 5e", kind |-> "string"],
       [key |-> "Box 5f", kind |-> "string"],
       [key |-> "Box 6", kind |-> "string"],
       [key |-> "Box 7", kind |-> "string"],
       [key |-> "Box 8", kind |-> "string"],
       [key |-> "Box 9", kind |-> "string"],
       [key |-> "Box 10", kind |-> "string"],
       [key |-> "Box 11", kind |-> "string"],
       [key |-> "Box 12", kind |-> "string"],
       [key |-> "Box 13", kind |-> "string"],
       [key |-> "Box 14", kind |-> "string"] >>

\* the type parameter T: models.JobDetails | models.Form941
Shapes == {"JobDetails", "Form941"}

\* the fields of the record T names
Fields(shape) == IF shape = "JobDetails" THEN JobDetailsFields ELSE Form941Fields

\* the json keys of the record, as a set
Keys(shape) == { Fields(shape)[i].key : i \in DOMAIN Fields(shape) }

\* the Go kind of the field with this key
KindOf(shape, key) ==
    LET i == CHOOSE n \in DOMAIN Fields(shape) : Fields(shape)[n].key = key
    IN  Fields(shape)[i].kind

\* what the verb %T prints for a value of type T
TypeName(shape) == IF shape = "JobDetails" THEN "models.JobDetails" ELSE "models.Form941"

\* var zero T: every string field "" and every bool field false
Zero(shape) ==
    [k \in Keys(shape) |-> IF KindOf(shape, k) = "bool" THEN FALSE ELSE <<>>]

---------------------------------------------------------------------------
(* encoding/json: Unmarshal of a text into a record *)

\* the white space JSON allows between tokens
JSONSpace == {" ", "\n", "\t"}

JSONPunct == {"{", "}", "[", "]", ":", ","}

\* the runs of digits used as JSON numbers in the inputs
Numbers == {"111", "0"}

Tok(t, c, str) == [t |-> t, c |-> c, s |-> str]

\* the positions of the double quotes in s[lo..hi], ascending
RECURSIVE QuotesIn(_, _, _)
QuotesIn(s, lo, hi) ==
    IF lo > hi THEN <<>>
    ELSE IF lo = hi THEN (IF s[lo] = "\"" THEN <<lo>> ELSE <<>>)
    ELSE LET mid == (lo + hi) \div 2
         IN  QuotesIn(s, lo, mid) \o QuotesIn(s, mid + 1, hi)

\* the tokens of s[lo..hi], a stretch outside every string literal: white space
\* is skipped, punctuation, literals and numbers are tokens, and any other
\* character is invalid (a token of kind "bad")
RECURSIVE PlainTokens(_, _, _)
PlainTokens(s, lo, hi) ==
    IF lo > hi THEN <<>>
    ELSE IF lo = hi THEN
        IF s[lo] \in JSONSpace THEN <<>>
        ELSE IF s[lo] \in JSONPunct THEN <<Tok("punct", s[lo], <<>>)>>
        ELSE IF s[lo] \in {"true", "false", "null"} THEN <<Tok("lit", s[lo], <<>>)>>
        ELSE IF s[lo] \in Numbers THEN <<Tok("num", s[lo], <<>>)>>
        ELSE <<Tok("bad", s[lo], <<>>)>>
    ELSE LET mid == (lo + hi) \div 2
         IN  PlainTokens(s, lo, mid) \o PlainTokens(s, mid + 1, hi)

\* the k-th string literal, q the quote positions: its content; a control
\* character inside it is invalid
StringToken(s, q, k) ==
    LET body == SubSeq(s, q[2 * k - 1] + 1, q[2 * k] - 1)
    IN  IF \E n \in DOMAIN body : body[n] \in {"\n", "\t"}
        THEN Tok("bad", "\"", <<>>)
        ELSE Tok("str", "", body)

\* the tokens from the stretch before the (klo+1)-th string literal up to the
\* stretch after the khi-th: quotes pair up from the left, and a last quote
\* without partner is an unterminated string (a token of kind "bad")
RECURSIVE LexChunks(_, _, _, _)
LexChunks(s, q, klo, khi) ==
    IF klo = khi THEN
        LET nstr == Len(q) \div 2
            odd == Len(q) % 2 = 1
            from == IF klo = 0 THEN 1 ELSE q[2 * klo] + 1
            to == IF klo < nstr THEN q[2 * klo + 1] - 1
                  ELSE IF odd THEN q[Len(q)] - 1
                  ELSE Len(s)
        IN  PlainTokens(s, from, to)
            \o (IF klo < nstr THEN <<StringToken(s, q, klo + 1)>>
                ELSE IF odd THEN <<Tok("bad", "\"", <<>>)>>
                ELSE <<>>)
    ELSE LET mid == (klo + khi) \div 2
         IN  LexChunks(s, q, klo, mid) \o LexChunks(s, q, mid + 1, khi)

\* the scanner: the tokens of the text
Lex(s) ==
    LET q == QuotesIn(s, 1, Len(s))
    IN  LexChunks(s, q, 0, Len(q) \div 2)

\* a JSON value: its kind, and its content by kind
Val(kind, str, b, members) == [kind |-> kind, str |-> str, b |-> b, members |-> members]

NullVal == Val("null", <<>>, FALSE, <<>>)

ParseFail == [ok |-> FALSE, next |-> 0, val |-> NullVal]

IsPunct(toks, i, c) == i <= Len(toks) /\ toks[i].t = "punct" /\ toks[i].c = c

RECURSIVE ParseValue(_, _)
RECURSIVE ParseMembers(_, _, _)
RECURSIVE ParseElems(_, _, _)

\* one value starting at token i: [ok, next, val]
ParseValue(toks, i) ==
    IF i > Len(toks) THEN ParseFail
    ELSE LET tk == toks[i] IN
        IF tk.t = "str" THEN [ok |-> TRUE, next |-> i + 1, val |-> Val("string", tk.s, FALSE, <<>>)]
        ELSE IF tk.t = "num" THEN [ok |-> TRUE, next |-> i + 1, val |-> Val("number", <<tk.c>>, FALSE, <<>>)]
        ELSE IF tk.t = "lit" THEN
            [ok |-> TRUE, next |-> i + 1,
             val |-> IF tk.c = "null" THEN NullVal ELSE Val("bool", <<>>, tk.c = "true", <<>>)]
        ELSE IF IsPunct(toks, i, "{") THEN
            IF IsPunct(toks, i + 1, "}")
            THEN [ok |-> TRUE, next |-> i + 2, val |-> Val("object", <<>>, FALSE, <<>>)]
            ELSE ParseMembers(toks, i + 1, <<>>)
        ELSE IF IsPunct(toks, i, "[") THEN
            IF IsPunct(toks, i + 1, "]")
            THEN [ok |-> TRUE, next |-> i + 2, val |-> Val("array", <<>>, FALSE, <<>>)]
            ELSE ParseElems(toks, i + 1, <<>>)
        ELSE ParseFail

\* the members of an object from token i on, up to its closing brace
ParseMembers(toks, i, acc) ==
    IF i > Len(toks) \/ toks[i].t # "str" \/ ~IsPunct(toks, i + 1, ":") THEN ParseFail
    ELSE LET r == ParseValue(toks, i + 2) IN
        IF ~r.ok THEN ParseFail
        ELSE LET ms == Append(acc, [key |-> toks[i].s, val |-> r.val]) IN
            IF IsPunct(toks, r.next, ",") THEN ParseMembers(toks, r.next + 1, ms)
            ELSE IF IsPunct(toks, r.next, "}")
            THEN [ok |-> TRUE, next |-> r.next + 1, val |-> Val("object", <<>>, FALSE, ms)]
            ELSE ParseFail

\* the elements of an array from token i on, up to its closing bracket
ParseElems(toks, i, acc) ==
    LET r == ParseValue(toks, i) IN
        IF ~r.ok THEN ParseFail
        ELSE LET es == Append(acc, [key |-> <<>>, val |-> r.val]) IN
            IF IsPunct(toks, r.next, ",") THEN ParseElems(toks, r.next + 1, es)
            ELSE IF IsPunct(toks, r.next, "]")
            THEN [ok |-> TRUE, next |-> r.next + 1, val |-> Val("array", <<>>, FALSE, es)]
            ELSE ParseFail

\* checkValid and the decoding of the text: one JSON value and nothing after it
ParseJSON(s) ==
    LET toks == Lex(s)
        r == ParseValue(toks, 1)
    IN  IF (\E n \in DOMAIN toks : toks[n].t = "bad") \/ ~r.ok \/ r.next # Len(toks) + 1
        THEN ParseFail
        ELSE r

\* the lower-case form of the lexemes that hold upper-case letters
LowerTable ==
    [ l \in {"EIN", "Name", "Trade Name", "Trade name", "Address", "Title", "TITLE",
             "Box 1", "Box 2", "Box 3", "Box 4", "BOX 4", "Box 5e", "Box 5f", "Box 6",
             "Box 7", "Box 8", "Box 9", "Box 10", "Box 11", "Box 12", "Box 13",
             "Box 14", "Box 15"} |->
        CASE l = "EIN" -> "ein"
          [] l = "Name" -> "name"
          [] l \in {"Trade Name", "Trade name"} -> "trade name"
          [] l = "Address" -> "address"
          [] l \in {"Title", "TITLE"} -> "title"
          [] l = "Box 1" -> "box 1"
          [] l = "Box 2" -> "box 2"
          [] l = "Box 3" -> "box 3"
          [] l \in {"Box 4", "BOX 4"} -> "box 4"
          [] l = "Box 5e" -> "box 5e"
          [] l = "Box 5f" -> "box 5f"
          [] l = "Box 6" -> "box 6"
          [] l = "Box 7" -> "box 7"
          [] l = "Box 8" -> "box 8"
          [] l = "Box 9" -> "box 9"
          [] l = "Box 10" -> "box 10"
          [] l = "Box 11" -> "box 11"
          [] l = "Box 12" -> "box 12"
          [] l = "Box 13" -> "box 13"
          [] l = "Box 14" -> "box 14"
          [] l = "Box 15" -> "box 15" ]

\* the case fold of a string: every lexeme lower-cased
Fold(str) ==
    [i \in DOMAIN str |-> IF str[i] \in DOMAIN LowerTable THEN LowerTable[str[i]] ELSE str[i]]

\* a decoder that takes a key for a field only when it is the json key exactly
FieldFor_ExactOnly(shape, key) ==
    LET fs == Fields(shape)
        exact == { n \in DOMAIN fs : <<fs[n].key>> = key }
    IN  IF exact # {} THEN CHOOSE n \in exact : \A m \in exact : n <= m
        ELSE 0

\* the field an object key decodes into: the field whose json key is the key
\* exactly, else the first field whose key equals it under case folding, else
\* none (0)
FieldFor(shape, key) ==
    LET fs == Fields(shape)
        exact == { n \in DOMAIN fs : <<fs[n].key>> = key }
        folded == { n \in DOMAIN fs : Fold(<<fs[n].key>>) = Fold(key) }
    IN  IF exact # {} THEN CHOOSE n \in exact : \A m \in exact : n <= m
        ELSE IF folded # {} THEN CHOOSE n \in folded : \A m \in folded : n <= m
        ELSE 0

\* an error of json.Unmarshal or of the model call: its Go type, and for an
\* UnmarshalTypeError the JSON kind met (Value) and the field it was for
Cause(type, value, fld) == [type |-> type, value |-> value, field |-> fld]

NilCause == Cause("nil", "", "")

\* a decoder that skips a value of the wrong kind without reporting it
RECURSIVE Fill_Lenient(_, _, _, _, _)
Fill_Lenient(shape, ms, i, acc, err) ==
    IF i > Len(ms) THEN [result |-> acc, err |-> err]
    ELSE LET m == ms[i]
             n == FieldFor(shape, m.key)
             f == Fields(shape)[n]
         IN  IF n = 0 \/ m.val.kind = "null" THEN Fill_Lenient(shape, ms, i + 1, acc, err)
             ELSE IF m.val.kind = "string" /\ f.kind = "string"
             THEN Fill_Lenient(shape, ms, i + 1, [acc EXCEPT ![f.key] = m.val.str], err)
             ELSE IF m.val.kind = "bool" /\ f.kind = "bool"
             THEN Fill_Lenient(shape, ms, i + 1, [acc EXCEPT ![f.key] = m.val.b], err)
             ELSE Fill_Lenient(shape, ms, i + 1, acc, err)

\* a decoder that keeps the string members it has no field for, as a map would
RECURSIVE Fill_KeepUnknown(_, _, _, _, _)
Fill_KeepUnknown(shape, ms, i, acc, err) ==
    IF i > Len(ms) THEN [result |-> acc, err |-> err]
    ELSE LET m == ms[i]
             n == FieldFor(shape, m.key)
             f == Fields(shape)[n]
         IN  IF n = 0 /\ m.val.kind = "string" /\ Len(m.key) = 1
             THEN Fill_KeepUnknown(shape, ms, i + 1, (m.key[1] :> m.val.str) @@ acc, err)
             ELSE IF n = 0 \/ m.val.kind = "null" THEN Fill_KeepUnknown(shape, ms, i + 1, acc, err)
             ELSE IF m.val.kind = "string" /\ f.kind = "string"
             THEN Fill_KeepUnknown(shape, ms, i + 1, [acc EXCEPT ![f.key] = m.val.str], err)
             ELSE IF m.val.kind = "bool" /\ f.kind = "bool"
             THEN Fill_KeepUnknown(shape, ms, i + 1, [acc EXCEPT ![f.key] = m.val.b], err)
             ELSE Fill_KeepUnknown(shape, ms, i + 1, acc,
                       IF err = NilCause
                       THEN Cause("json.UnmarshalTypeError", m.val.kind, f.key)
                       ELSE err)

\* the object's members stored into the record one after the other: an unknown
\* key and a null are skipped, a value of the field's kind is stored, a value
\* of another kind is skipped and the first such mismatch is the error returned
RECURSIVE Fill(_, _, _, _, _)
Fill(shape, ms, i, acc, err) ==
    IF i > Len(ms) THEN [result |-> acc, err |-> err]
    ELSE LET m == ms[i]
             n == FieldFor(shape, m.key)
             f == Fields(shape)[n]
         IN  IF n = 0 \/ m.val.kind = "null" THEN Fill(shape, ms, i + 1, acc, err)
             ELSE IF m.val.kind = "string" /\ f.kind = "string"
             THEN Fill(shape, ms, i + 1, [acc EXCEPT ![f.key] = m.val.str], err)
             ELSE IF m.val.kind = "bool" /\ f.kind = "bool"
             THEN Fill(shape, ms, i + 1, [acc EXCEPT ![f.key] = m.val.b], err)
             ELSE Fill(shape, ms, i + 1, acc,
                       IF err = NilCause
                       THEN Cause("json.UnmarshalTypeError", m.val.kind, f.key)
                       ELSE err)

\* a strict decoder: an object that lacks a member for some field is rejected
Unmarshal_StrictMissing(shape, text) ==
    LET p == ParseJSON(text)
        given == IF p.ok /\ p.val.kind = "object"
                 THEN { FieldFor(shape, p.val.members[n].key) : n \in DOMAIN p.val.members }
                 ELSE {}
    IN  IF ~p.ok THEN [result |-> Zero(shape), err |-> Cause("json.SyntaxError", "", "")]
        ELSE IF p.val.kind = "null" THEN [result |-> Zero(shape), err |-> NilCause]
        ELSE IF p.val.kind # "object"
        THEN [result |-> Zero(shape), err |-> Cause("json.UnmarshalTypeError", p.val.kind, "")]
        ELSE IF \E n \in DOMAIN Fields(shape) : n \notin given
        THEN [result |-> Zero(shape), err |-> Cause("missing field", "", "")]
        ELSE Fill(shape, p.val.members, 1, Zero(shape), NilCause)

\* json.Unmarshal([]byte(text), &result) with result the zero T: the record as
\* Unmarshal leaves it, and the error
Unmarshal(shape, text) ==
    LET p == ParseJSON(text) IN
        IF ~p.ok THEN [result |-> Zero(shape), err |-> Cause("json.SyntaxError", "", "")]
        ELSE IF p.val.kind = "null" THEN [result |-> Zero(shape), err |-> NilCause]
        ELSE IF p.val.kind # "object"
        THEN [result |-> Zero(shape), err |-> Cause("json.UnmarshalTypeError", p.val.kind, "")]
        ELSE Fill(shape, p.val.members, 1, Zero(shape), NilCause)

---------------------------------------------------------------------------
(* ParseDocumentWithGeminiMultimodal: prompts, errors, model responses *)

\* jobDetailsPrompt(): the text, and the keys of the JSON structure it shows
jobDetailsPrompt ==
    [fn |-> "jobDetailsPrompt",
     keys |-> <<"title", "salary", "location", "experience", "employment-type">>]

\* form941Prompt(): the text, and the keys of the JSON structure it shows
form941Prompt ==
    [fn |-> "form941Prompt",
     keys |-> <<"EIN", "Name", "Trade name", "Address", "Box 1", "Box 2", "Box 3",
                "Box 4", "Box 5e", "Box 5f", "Box 6", "Box 7", "Box 8", "Box 9",
                "Box 10", "Box 11", "Box 12", "Box 13", "Box 14", "Box 15">>]

NoPrompt == [fn |-> "", keys |-> <<>>]

\* a switch whose default falls back to the Form 941 prompt
schemaInstruction_Default941(docType) ==
    IF docType = JobDetailsType THEN [ok |-> TRUE, prompt |-> jobDetailsPrompt]
    ELSE [ok |-> TRUE, prompt |-> form941Prompt]

\* a switch that has the job details case only
schemaInstruction_JobOnly(docType) ==
    IF docType = JobDetailsType THEN [ok |-> TRUE, prompt |-> jobDetailsPrompt]
    ELSE [ok |-> FALSE, prompt |-> NoPrompt]

\* switch docType: the prompt of a registered document type, or none
schemaInstruction(docType) ==
    IF docType = JobDetailsType THEN [ok |-> TRUE, prompt |-> jobDetailsPrompt]
    ELSE IF docType = Form941Type THEN [ok |-> TRUE, prompt |-> form941Prompt]
    ELSE [ok |-> FALSE, prompt |-> NoPrompt]

\* an error value made by fmt.Errorf: the format string and its arguments
Err(format, docType, wrapped, typeName, response) ==
    [format |-> format, docType |-> docType, wrapped |-> wrapped,
     typeName |-> typeName, response |-> response]

\* the nil error
NilErr == Err("nil", "", NilCause, "", <<>>)

\* fmt.Errorf("unsupported document type: %s", docType)
ErrUnsupported(docType) ==
    Err("unsupported document type: %s", docType, NilCause, "", <<>>)

\* an error that names the failure and drops its cause
ErrCallingAPI_NoCause(cause) ==
    Err("error calling Gemini AI API: %w", "", NilCause, "", <<>>)

\* fmt.Errorf("error calling Gemini AI API: %w", err)
ErrCallingAPI(cause) ==
    Err("error calling Gemini AI API: %w", "", cause, "", <<>>)

\* fmt.Errorf("unexpected response format from Gemini AI API")
ErrUnexpectedFormat ==
    Err("unexpected response format from Gemini AI API", "", NilCause, "", <<>>)

\* the empty response reported with the message of the format check
ErrNoResponse_AsFormat == ErrUnexpectedFormat

\* fmt.Errorf("no response from Gemini AI API")
ErrNoResponse ==
    Err("no response from Gemini AI API", "", NilCause, "", <<>>)

\* a decode error without the response text
ErrParsing_NoResponse(typeName, cause, response) ==
    Err("error parsing Gemini AI response for %T: %w\nResponse: %s", "", cause, typeName, <<>>)

\* a decode error that does not name the type it decoded into
ErrParsing_NoType(typeName, cause, response) ==
    Err("error parsing Gemini AI response for %T: %w\nResponse: %s", "", cause, "", response)

\* fmt.Errorf("error parsing Gemini AI response for %T: %w\nResponse: %s", result, err, jsonStr)
ErrParsing(typeName, cause, response) ==
    Err("error parsing Gemini AI response for %T: %w\nResponse: %s", "", cause, typeName, response)

\* a genai.Part of a response: genai.Text or another kind of part
TextPart(text) == [kind |-> "text", text |-> text]

BlobPart == [kind |-> "blob", text |-> <<>>]

\* what GenerateContent returns: an error, or candidates, each the parts of its
\* content
Response(err, candidates) == [err |-> err, candidates |-> candidates]

\* len(resp.Candidates) == 0 || len(resp.Candidates[0].Content.Parts) == 0
noContent(r) == Len(r.candidates) = 0 \/ Len(r.candidates[1]) = 0

\* a type assertion that accepts the response when any part is text
firstPartIsText_AnyPart(r) ==
    \E n \in DOMAIN r.candidates[1] : r.candidates[1][n].kind = "text"

\* content, ok := resp.Candidates[0].Content.Parts[0].(genai.Text): ok
firstPartIsText(r) == r.candidates[1][1].kind = "text"

---------------------------------------------------------------------------
(* The state of an extraction call before it is made. *)

NoReq == [docType |-> "", shape |-> "none", mimeType |-> "", fileContent |-> <<>>]

NoSent == [model |-> "", temperature |-> -1, instruction |-> NoPrompt, blobMime |-> "", blobData |-> <<>>]

NoResp == Response(NilCause, <<>>)

NoRet == [result |-> <<>>, err |-> NilErr]

\* the decode harness when it is not in use
NoDecodeInput == [base |-> "none", opts |-> <<>>, extra |-> FALSE, spelling |-> "tag"]

DecodeIdle == din = NoDecodeInput

\* the parse handler before a request arrives
NoHttpRequest ==
    [method |-> "", hasFile |-> FALSE, readable |-> FALSE, filename |-> <<>>,
     fileContent |-> <<>>, docTypeParam |-> <<>>]

NoHttpResponse ==
    [status |-> 0, message |-> "", errText |-> NilErr, fileName |-> <<>>, fileSize |-> 0,
     documentType |-> "", parsedResult |-> <<>>]

\* no request context yet, and no context handed to a model call
NoCtx == [request |-> "none", call |-> "none"]

\* the finalize handler before a request: nothing answered, nothing stored
NoFinalize ==
    [pc |-> "idle", method |-> "", db |-> "", body |-> <<>>, status |-> 0, message |-> "",
     stored |-> <<>>]

HandlerIdle ==
    /\ hpc = "idle"
    /\ hreq = NoHttpRequest
    /\ hresp = NoHttpResponse
    /\ ctx = NoCtx
    /\ fin = NoFinalize

\* no concurrent call in flight
ConcIdle ==
    /\ calls = <<>>
    /\ sharedLog = <<>>

CallIdle ==
    /\ pc = "idle"
    /\ req = NoReq
    /\ modelCalls = 0
    /\ sent = NoSent
    /\ resp = NoResp
    /\ jsonStr = <<>>
    /\ steps = <<>>
    /\ logs = <<>>
    /\ ret = NoRet

---------------------------------------------------------------------------
(* The sanitizer harness: cleanJSONResponse applied to an input, and to its  *)
(* own result.                                                               *)

InitClean ==
    /\ \/ /\ cwrap = "free"
          /\ cin \in PieceStrings
          /\ cbody = cin
       \/ /\ cwrap \in WrapKinds
          /\ cbody \in CompactObjects
          /\ cin = Wrap(cwrap, cbody)
    /\ cout = <<>>
    /\ cout2 = <<>>
    /\ cstage = "in"
    /\ CallIdle
    /\ DecodeIdle
    /\ HandlerIdle
    /\ ConcIdle

\* jsonStr = cleanJSONResponse(jsonStr)
Clean ==
    /\ cstage = "in"
    /\ cout' = cleanJSONResponse(cin)
    /\ cstage' = "cleaned"
    /\ UNCHANGED <<cin, cwrap, cbody, cout2>>
    /\ UNCHANGED callVars
    /\ UNCHANGED <<decodeVars, handlerVars, concVars>>

\* cleanJSONResponse applied to a text that was already cleaned
CleanAgain ==
    /\ cstage = "cleaned"
    /\ cout2' = cleanJSONResponse(cout)
    /\ cstage' = "twice"
    /\ UNCHANGED <<cin, cwrap, cbody, cout>>
    /\ UNCHANGED callVars
    /\ UNCHANGED <<decodeVars, handlerVars, concVars>>

NextClean == Clean \/ CleanAgain

SpecClean == InitClean /\ [][NextClean]_vars

---------------------------------------------------------------------------
(* The inputs of an extraction call. *)

\* most parts in a candidate's content
MaxParts == 2

\* most candidates in a response
MaxCandidates == 2

\* the docType arguments: the two registered types and others
DocTypes == {JobDetailsType, Form941Type, "tax_form_941", "unknown_type", ""}

MimeTypes == {"application/pdf", "text/plain"}

FileContents == {<<37, 80>>, <<>>}

\* a JSON string literal holding one run of characters
S(run) == Str(<<run>>)

\* the five job fields of the prompt's structure, compact
JobObject ==
    Object(<< Member(<<"title">>, S("Engineer")), Member(<<"salary">>, Str(<<>>)),
              Member(<<"location">>, S("NYC")), Member(<<"experience">>, Str(<<>>)),
              Member(<<"employment-type">>, S("Full-time")) >>)

\* the Form 941 structure of the prompt with the given text for Box 4
Form941Object(box4) ==
    Object(<< Member(<<"EIN">>, S("123456789")), Member(<<"Name">>, S("Company Name")),
              Member(<<"Trade name">>, S("Trade name")), Member(<<"Address">>, S("Full address")),
              Member(<<"Box 1">>, S("111")), Member(<<"Box 2">>, S("$22.22")),
              Member(<<"Box 3">>, S("$33.33")), Member(<<"Box 4">>, box4),
              Member(<<"Box 5e">>, S("$55.55")), Member(<<"Box 5f">>, S("$55.55")),
              Member(<<"Box 6">>, S("$66.66")), Member(<<"Box 7">>, S("$77.77")),
              Member(<<"Box 8">>, S("$88.88")), Member(<<"Box 9">>, S("$99.99")),
              Member(<<"Box 10">>, S("$100.00")), Member(<<"Box 11">>, S("$111.11")),
              Member(<<"Box 12">>, S("$121.21")), Member(<<"Box 13">>, S("$121.21")),
              Member(<<"Box 14">>, S("$121.21")), Member(<<"Box 15">>, S("$121.21")) >>)

\* the texts the model may answer with
ModelTexts ==
    { Fenced(TagLower, JobObject),
      Fenced(NoTag, JobObject),
      Fenced(TagUpper, JobObject),
      JobObject,
      <<" ", "\n">> \o JobObject \o <<"\n">>,
      Object(<< Member(<<"title">>, <<"true">>), Member(<<"salary">>, S("1")) >>),
      Fenced(TagLower, Form941Object(<<"true">>)),
      Form941Object(<<"false">>),
      Fenced(TagLower, Form941Object(<<"maybe">>)),
      Form941Object(S("true")),
      Object(<< Member(<<"EIN">>, S("12")), Member(<<"Box 1">>, <<"111">>) >>),
      <<"{", "}">>,
      <<"null">>,
      <<>>,
      <<"Sorry", " ", "I", " ", "cannot">> }

\* the parts and candidates that may follow the first
ExtraParts == {BlobPart, TextPart(JobObject)}

ExtraCandidates == {<<>>, <<TextPart(JobObject)>>}

\* the contents a first candidate may have: no part, or a first part followed
\* by fewer than MaxParts others
FirstCandidates ==
    {<<>>} \cup
    UNION { { <<first>> \o rest :
                first \in {BlobPart} \cup {TextPart(t) : t \in ModelTexts},
                rest \in [1..n -> ExtraParts] } : n \in 0..(MaxParts - 1) }

\* the underlying errors of a failed model call
ModelErrors ==
    { Cause("transport", "", ""), Cause("auth", "", ""), Cause("quota", "", ""),
      Cause("context.Canceled", "", "") }

\* everything GenerateContent may return
Responses ==
    { Response(e, <<>>) : e \in ModelErrors } \cup
    { Response(NilCause, <<>>) } \cup
    UNION { { Response(NilCause, <<first>> \o rest) :
                first \in FirstCandidates,
                rest \in [1..n -> ExtraCandidates] } : n \in 0..(MaxCandidates - 1) }

---------------------------------------------------------------------------
(* One call of ParseDocumentWithGeminiMultimodal[T]. *)

Init ==
    /\ cin = <<>>
    /\ cwrap = "free"
    /\ cbody = <<>>
    /\ cout = <<>>
    /\ cout2 = <<>>
    /\ cstage = "off"
    /\ CallIdle
    /\ DecodeIdle
    /\ HandlerIdle
    /\ ConcIdle

\* a call that writes the media type of the file into the instruction text
Invoke_Interpolate(docType, shape, mimeType, fileContent) ==
    LET si == schemaInstruction(docType) IN
    /\ req' = [docType |-> docType, shape |-> shape, mimeType |-> mimeType,
               fileContent |-> fileContent]
    /\ IF si.ok
       THEN /\ sent' = [model |-> "gemini-2.0-flash", temperature |-> 0,
                        instruction |-> [fn |-> si.prompt.fn,
                                         keys |-> si.prompt.keys \o <<mimeType>>],
                        blobMime |-> mimeType, blobData |-> fileContent]
            /\ modelCalls' = modelCalls + 1
            /\ steps' = <<"resolve", "invoke">>
            /\ pc' = "awaiting"
            /\ UNCHANGED ret
       ELSE /\ ret' = [result |-> Zero(shape), err |-> ErrUnsupported(docType)]
            /\ steps' = <<"resolve">>
            /\ pc' = "done"
            /\ UNCHANGED <<sent, modelCalls>>
    /\ UNCHANGED <<resp, jsonStr, logs>>

\* the call up to GenerateContent: the switch on docType, then the model and
\* the prompt; an unregistered docType returns at once
Invoke(docType, shape, mimeType, fileContent) ==
    LET si == schemaInstruction(docType) IN
    /\ req' = [docType |-> docType, shape |-> shape, mimeType |-> mimeType,
               fileContent |-> fileContent]
    /\ IF si.ok
       THEN /\ sent' = [model |-> "gemini-2.0-flash", temperature |-> 0,
                        instruction |-> si.prompt, blobMime |-> mimeType,
                        blobData |-> fileContent]
            /\ modelCalls' = modelCalls + 1
            /\ steps' = <<"resolve", "invoke">>
            /\ pc' = "awaiting"
            /\ UNCHANGED ret
       ELSE /\ ret' = [result |-> Zero(shape), err |-> ErrUnsupported(docType)]
            /\ steps' = <<"resolve">>
            /\ pc' = "done"
            /\ UNCHANGED <<sent, modelCalls>>
    /\ UNCHANGED <<resp, jsonStr, logs>>

\* ParseDocumentWithGeminiMultimodal called with any document type and any
\* type parameter
Call ==
    /\ pc = "idle"
    /\ \E docType \in DocTypes, shape \in Shapes, mimeType \in MimeTypes,
          fileContent \in FileContents :
        Invoke(docType, shape, mimeType, fileContent)
    /\ UNCHANGED cleanVars
    /\ UNCHANGED <<decodeVars, handlerVars, concVars>>

\* a function body that returns what json.Unmarshal filled in together with
\* the decode error
AfterGenerate_PartialOnError(shape, r) ==
    IF r.err # NilCause
    THEN [ret |-> [result |-> Zero(shape), err |-> ErrCallingAPI(r.err)],
          jsonStr |-> <<>>, steps |-> <<>>, logs |-> <<>>]
    ELSE IF noContent(r)
    THEN [ret |-> [result |-> Zero(shape), err |-> ErrNoResponse],
          jsonStr |-> <<>>, steps |-> <<"checkEmpty">>, logs |-> <<>>]
    ELSE IF ~firstPartIsText(r)
    THEN [ret |-> [result |-> Zero(shape), err |-> ErrUnexpectedFormat],
          jsonStr |-> <<>>, steps |-> <<"checkEmpty", "checkText">>, logs |-> <<>>]
    ELSE LET cleaned == cleanJSONResponse(r.candidates[1][1].text)
             u == Unmarshal(shape, cleaned)
         IN  IF u.err # NilCause
             THEN [ret |-> [result |-> u.result,
                            err |-> ErrParsing(TypeName(shape), u.err, cleaned)],
                   jsonStr |-> cleaned,
                   steps |-> <<"checkEmpty", "checkText", "sanitize", "decode">>,
                   logs |-> <<"Cleaned JSON response: %s", "JSON parsing failed for %T: %v">>]
             ELSE [ret |-> [result |-> u.result, err |-> NilErr],
                   jsonStr |-> cleaned,
                   steps |-> <<"checkEmpty", "checkText", "sanitize", "decode">>,
                   logs |-> <<"Cleaned JSON response: %s">>]

\* a function body that goes on to the text-part check after an empty response
AfterGenerate_ContinueAfterEmpty(shape, r) ==
    IF r.err # NilCause
    THEN [ret |-> [result |-> Zero(shape), err |-> ErrCallingAPI(r.err)],
          jsonStr |-> <<>>, steps |-> <<>>, logs |-> <<>>]
    ELSE IF noContent(r) \/ ~firstPartIsText(r)
    THEN [ret |-> [result |-> Zero(shape), err |-> ErrUnexpectedFormat],
          jsonStr |-> <<>>, steps |-> <<"checkEmpty", "checkText">>, logs |-> <<>>]
    ELSE LET cleaned == cleanJSONResponse(r.candidates[1][1].text)
             u == Unmarshal(shape, cleaned)
         IN  IF u.err # NilCause
             THEN [ret |-> [result |-> Zero(shape),
                            err |-> ErrParsing(TypeName(shape), u.err, cleaned)],
                   jsonStr |-> cleaned,
                   steps |-> <<"checkEmpty", "checkText", "sanitize", "decode">>,
                   logs |-> <<"Cleaned JSON response: %s", "JSON parsing failed for %T: %v">>]
             ELSE [ret |-> [result |-> u.result, err |-> NilErr],
                   jsonStr |-> cleaned,
                   steps |-> <<"checkEmpty", "checkText", "sanitize", "decode">>,
                   logs |-> <<"Cleaned JSON response: %s">>]

\* the function body after GenerateContent returned r, for the type parameter
\* shape: what is returned, the cleaned text, the steps run and the lines logged
AfterGenerate(shape, r) ==
    IF r.err # NilCause
    THEN [ret |-> [result |-> Zero(shape), err |-> ErrCallingAPI(r.err)],
          jsonStr |-> <<>>, steps |-> <<>>, logs |-> <<>>]
    ELSE IF noContent(r)
    THEN [ret |-> [result |-> Zero(shape), err |-> ErrNoResponse],
          jsonStr |-> <<>>, steps |-> <<"checkEmpty">>, logs |-> <<>>]
    ELSE IF ~firstPartIsText(r)
    THEN [ret |-> [result |-> Zero(shape), err |-> ErrUnexpectedFormat],
          jsonStr |-> <<>>, steps |-> <<"checkEmpty", "checkText">>, logs |-> <<>>]
    ELSE LET cleaned == cleanJSONResponse(r.candidates[1][1].text)
             u == Unmarshal(shape, cleaned)
         IN  IF u.err # NilCause
             THEN [ret |-> [result |-> Zero(shape),
                            err |-> ErrParsing(TypeName(shape), u.err, cleaned)],
                   jsonStr |-> cleaned,
                   steps |-> <<"checkEmpty", "checkText", "sanitize", "decode">>,
                   logs |-> <<"Cleaned JSON response: %s", "JSON parsing failed for %T: %v">>]
             ELSE [ret |-> [result |-> u.result, err |-> NilErr],
                   jsonStr |-> cleaned,
                   steps |-> <<"checkEmpty", "checkText", "sanitize", "decode">>,
                   logs |-> <<"Cleaned JSON response: %s">>]

\* a call that invokes the model again when the invocation failed
ModelReturns_Retry ==
    /\ pc = "awaiting"
    /\ \E r \in Responses :
        IF r.err # NilCause /\ modelCalls < 2
        THEN /\ modelCalls' = modelCalls + 1
             /\ resp' = r
             /\ UNCHANGED <<pc, jsonStr, steps, logs, ret>>
        ELSE LET a == AfterGenerate(req.shape, r) IN
             /\ resp' = r
             /\ ret' = a.ret
             /\ jsonStr' = a.jsonStr
             /\ steps' = steps \o a.steps
             /\ logs' = logs \o a.logs
             /\ pc' = "done"
             /\ UNCHANGED modelCalls
    /\ UNCHANGED <<req, sent>>
    /\ UNCHANGED cleanVars
    /\ UNCHANGED <<decodeVars, handlerVars, concVars>>

\* GenerateContent returns and the call runs to its return statement
ModelReturns ==
    /\ pc = "awaiting"
    /\ \E r \in Responses :
        LET a == AfterGenerate(req.shape, r) IN
        /\ resp' = r
        /\ ret' = a.ret
        /\ jsonStr' = a.jsonStr
        /\ steps' = steps \o a.steps
        /\ logs' = logs \o a.logs
        /\ pc' = "done"
    /\ UNCHANGED <<req, sent, modelCalls>>
    /\ UNCHANGED cleanVars
    /\ UNCHANGED <<decodeVars, handlerVars, concVars>>

Next == Call \/ ModelReturns

Spec == Init /\ [][Next]_vars

---------------------------------------------------------------------------
(* handleParseDocument: the /parse-document endpoint around the call *)

\* strings.ToLower on the last piece of a file name
LowerExt(x) ==
    CASE x = ".PDF" -> ".pdf"
      [] x = ".Png" -> ".png"
      [] OTHER -> x

\* mimeType from the file extension, application/octet-stream by default
MimeOf(filename) ==
    LET ext == IF filename = <<>> THEN "" ELSE LowerExt(filename[Len(filename)])
    IN  CASE ext = ".pdf" -> "application/pdf"
          [] ext = ".csv" -> "text/csv"
          [] ext = ".png" -> "image/png"
          [] ext = ".txt" -> "text/plain"
          [] ext = ".doc" -> "application/msword"
          [] ext = ".docx" -> "application/vnd.openxmlformats-officedocument.wordprocessingml.document"
          [] OTHER -> "application/octet-stream"

\* a handler that hands the call a context of its own
CallContext_Background(inbound) == "background"

\* ctx := r.Context(), handed to ParseDocumentWithGeminiMultimodal, which hands
\* it to model.GenerateContent
CallContext(inbound) == inbound

\* r.FormValue("document_type"): the first value of the parameter, or ""
FormValue(param) == IF param = <<>> THEN "" ELSE param[1]

\* a handler that takes the parameter as the document type, without a default
HandlerDocType_NoDefault(docTypeStr) == docTypeStr

\* switch docTypeStr: job_details, form_941, and Form941Type by default
HandlerDocType(docTypeStr) ==
    CASE docTypeStr = "job_details" -> JobDetailsType
      [] docTypeStr = "form_941" -> Form941Type
      [] OTHER -> Form941Type

\* a handler that calls with the Form 941 record whatever the document type
HandlerShape_AlwaysForm941(docType) == "Form941"

\* switch docType: the type parameter of the call, none in the default branch
HandlerShape(docType) ==
    CASE docType = JobDetailsType -> "JobDetails"
      [] docType = Form941Type -> "Form941"
      [] OTHER -> "none"

\* the requests the handler may receive
HttpRequests ==
    { [method |-> me, hasFile |-> hf, readable |-> rd, filename |-> fn,
       fileContent |-> fc, docTypeParam |-> dp] :
        me \in {"POST", "OPTIONS"}, hf \in BOOLEAN, rd \in BOOLEAN,
        fn \in {<<"form", ".PDF">>, <<"notes">>}, fc \in FileContents,
        dp \in {<<>>, <<"">>, <<"job_details">>, <<"form_941">>, <<"tax_form_941">>} }

\* http.Error(w, message + err.Error(), status)
HttpError(status, message, err) ==
    [status |-> status, message |-> message, errText |-> err, fileName |-> <<>>,
     fileSize |-> 0, documentType |-> "", parsedResult |-> <<>>]

\* the response map encoded as JSON with the default status
HttpSuccess(rq, docType, parsedResult) ==
    [status |-> 200, message |-> "Document parsed successfully", errText |-> NilErr,
     fileName |-> rq.filename, fileSize |-> Len(rq.fileContent),
     documentType |-> docType, parsedResult |-> parsedResult]

\* the handler up to the model call: preflight, file, mime type, document
\* type, and the call with the type parameter of the document type
HandlerReceive ==
    /\ hpc = "idle"
    /\ pc = "idle"
    /\ \E rq \in HttpRequests :
        LET mimeType == MimeOf(rq.filename)
            docType == HandlerDocType(FormValue(rq.docTypeParam))
            shape == HandlerShape(docType)
            stop(response) == /\ hresp' = response
                              /\ hpc' = "done"
                              /\ UNCHANGED <<callVars, ctx>>
        IN  /\ hreq' = rq
            /\ IF rq.method = "OPTIONS"
               THEN stop(HttpError(200, "", NilErr))
               ELSE IF ~rq.hasFile
               THEN stop(HttpError(400, "Error retrieving file: ",
                                   Err("http: no such file", "", NilCause, "", <<>>)))
               ELSE IF ~rq.readable
               THEN stop(HttpError(500, "Error reading file: ",
                                   Err("unexpected EOF", "", NilCause, "", <<>>)))
               ELSE IF shape = "none"
               THEN stop(HttpError(400, "Unsupported document type: ",
                                   Err(docType, "", NilCause, "", <<>>)))
               ELSE /\ Invoke(docType, shape, mimeType, rq.fileContent)
                    /\ ctx' = [request |-> "live", call |-> CallContext("request")]
                    /\ hpc' = "parsing"
                    /\ UNCHANGED hresp
    /\ UNCHANGED cleanVars
    /\ UNCHANGED <<decodeVars, concVars, fin>>

\* a handler that, when the call failed, invokes the model again on the text
\* alone and answers with what it has
HandlerRespond_Fallback ==
    /\ hpc = "parsing"
    /\ pc = "done"
    /\ IF ret.err # NilErr
       THEN /\ logs' = logs \o <<"Multimodal approach failed: %v. Falling back to text-based approach.">>
            /\ modelCalls' = modelCalls + 1
            /\ sent' = [sent EXCEPT !.blobMime = "text/plain"]
            /\ hresp' = HttpSuccess(hreq, req.docType, ret.result)
       ELSE /\ hresp' = HttpSuccess(hreq, req.docType, ret.result)
            /\ UNCHANGED <<logs, modelCalls, sent>>
    /\ hpc' = "done"
    /\ UNCHANGED <<pc, req, resp, jsonStr, steps, ret, hreq, ctx, fin>>
    /\ UNCHANGED cleanVars
    /\ UNCHANGED <<decodeVars, concVars>>

\* the handler after the call returned: 500 with the error, or the response
HandlerRespond ==
    /\ hpc = "parsing"
    /\ pc = "done"
    /\ IF ret.err # NilErr
       THEN /\ logs' = logs \o <<"Multimodal approach failed: %v. Falling back to text-based approach.">>
            /\ hresp' = HttpError(500, "Error parsing document: ", ret.err)
       ELSE /\ hresp' = HttpSuccess(hreq, req.docType, ret.result)
            /\ UNCHANGED logs
    /\ hpc' = "done"
    /\ UNCHANGED <<pc, req, modelCalls, sent, resp, jsonStr, steps, ret, hreq, ctx, fin>>
    /\ UNCHANGED cleanVars
    /\ UNCHANGED <<decodeVars, concVars>>

\* the function called by another caller than the handler, while no request
\* is in hand
DirectCall == hpc = "idle" /\ Call

\* requests to the endpoint, and calls made without it
NextHandler == HandlerReceive \/ ModelReturns \/ HandlerRespond \/ DirectCall

SpecHandler == Init /\ [][NextHandler]_vars

---------------------------------------------------------------------------
(* handleFinalizeParsedFields: the /finalize-parsed-fields endpoint *)

\* the request bodies: not JSON, nothing, the JSON null, an array, or an
\* object whose three members each are absent or hold a value of some kind
FinalizeBodies ==
    { [form |-> f, pf |-> "absent", name |-> "absent", type |-> "absent"] :
        f \in {"notjson", "empty", "null", "array"} } \cup
    { [form |-> "object", pf |-> pf, name |-> n, type |-> t] :
        pf \in {"absent", "object", "emptyobject", "null", "string"},
        n \in {"absent", "doc", "empty", "null", "number"},
        t \in {"absent", "form_941", "number"} }

\* the text of a body
FinalizeText(b) ==
    LET pf == CASE b.pf = "object" -> Object(<<Member(<<"EIN">>, S("12"))>>)
                [] b.pf = "emptyobject" -> <<"{", "}">>
                [] b.pf = "null" -> <<"null">>
                [] OTHER -> S("x")
        n == CASE b.name = "doc" -> S("doc.pdf")
               [] b.name = "empty" -> Str(<<>>)
               [] b.name = "null" -> <<"null">>
               [] OTHER -> <<"111">>
        t == IF b.type = "form_941" THEN S("form_941") ELSE <<"0">>
    IN  CASE b.form = "notjson" -> <<"parsed_fields", "=", "1">>
          [] b.form = "empty" -> <<>>
          [] b.form = "null" -> <<"null">>
          [] b.form = "array" -> <<"[", "]">>
          [] OTHER ->
               Object((IF b.pf = "absent" THEN <<>> ELSE <<Member(<<"parsed_fields">>, pf)>>) \o
                      (IF b.name = "absent" THEN <<>> ELSE <<Member(<<"document_name">>, n)>>) \o
                      (IF b.type = "absent" THEN <<>> ELSE <<Member(<<"document_type">>, t)>>))

\* json.NewDecoder(r.Body).Decode(&req) into a FinalizeRequest, for the body
\* text and its parse p: parsed_fields keeps the raw value of its member (here
\* the value as parsed), the two strings take a string and are left alone by
\* null
DecodeFinalize(text, p) ==
    LET ms == p.val.members
        found == [k \in {"parsed_fields", "document_name", "document_type"} |->
                    LET at == { n \in DOMAIN ms : Fold(ms[n].key) = <<k>> }
                    IN  IF at = {} THEN <<>>
                        ELSE <<ms[CHOOSE n \in at : \A o \in at : o <= n].val>>]
        str == [k \in DOMAIN found |->
                    IF found[k] = <<>> \/ found[k][1].kind # "string" THEN <<>>
                    ELSE found[k][1].str]
        bad == { k \in {"document_name", "document_type"} :
                    found[k] # <<>> /\ found[k][1].kind \notin {"string", "null"} }
        zero == [parsedFields |-> <<>>, documentName |-> <<>>, documentType |-> <<>>]
    IN  IF ~p.ok
        THEN [req |-> zero, err |-> Cause(IF text = <<>> THEN "io.EOF" ELSE "json.SyntaxError", "", "")]
        ELSE IF p.val.kind = "null" THEN [req |-> zero, err |-> NilCause]
        ELSE IF p.val.kind # "object"
        THEN [req |-> zero, err |-> Cause("json.UnmarshalTypeError", p.val.kind, "")]
        ELSE [req |-> [parsedFields |-> found["parsed_fields"],
                       documentName |-> str["document_name"],
                       documentType |-> str["document_type"]],
              err |-> IF bad = {} THEN NilCause
                      ELSE Cause("json.UnmarshalTypeError", "", "FinalizeRequest")]

\* a handler that does not require a document name
FinalizeResponse_NoNameCheck(me, db, d, storeOk) ==
    IF me = "OPTIONS" THEN [status |-> 200, message |-> "", stored |-> <<>>]
    ELSE IF db = "nil"
    THEN [status |-> 503, message |-> "Database connection is not available", stored |-> <<>>]
    ELSE IF d.err # NilCause
    THEN [status |-> 400, message |-> "Error parsing request body: ", stored |-> <<>>]
    ELSE IF Len(d.req.parsedFields) = 0
    THEN [status |-> 400, message |-> "parsed_fields is required", stored |-> <<>>]
    ELSE IF ~storeOk
    THEN [status |-> 500, message |-> "Error storing parsed fields: ", stored |-> <<d.req>>]
    ELSE [status |-> 200, message |-> "Parsed fields stored successfully", stored |-> <<d.req>>]

\* the handler for a method, a database handle and a decoded body d: preflight,
\* the database handle, the body, the two required fields, then
\* database.StoreParsedFields(db, req.ParsedFields, req.DocumentName,
\* req.DocumentType), which may fail; what is answered, and the store calls
FinalizeResponse(me, db, d, storeOk) ==
    IF me = "OPTIONS" THEN [status |-> 200, message |-> "", stored |-> <<>>]
    ELSE IF db = "nil"
    THEN [status |-> 503, message |-> "Database connection is not available", stored |-> <<>>]
    ELSE IF d.err # NilCause
    THEN [status |-> 400, message |-> "Error parsing request body: ", stored |-> <<>>]
    ELSE IF d.req.documentName = <<>>
    THEN [status |-> 400, message |-> "document_name is required", stored |-> <<>>]
    ELSE IF Len(d.req.parsedFields) = 0
    THEN [status |-> 400, message |-> "parsed_fields is required", stored |-> <<>>]
    ELSE IF ~storeOk
    THEN [status |-> 500, message |-> "Error storing parsed fields: ", stored |-> <<d.req>>]
    ELSE [status |-> 200, message |-> "Parsed fields stored successfully", stored |-> <<d.req>>]

\* a request to the endpoint, handled to its response
HandleFinalize ==
    /\ fin.pc = "idle"
    /\ hpc = "idle"
    /\ pc = "idle"
    /\ \E me \in {"POST", "OPTIONS"}, db \in {"open", "nil"}, b \in FinalizeBodies,
          storeOk \in BOOLEAN :
        \E out \in {FinalizeResponse(me, db,
                        DecodeFinalize(FinalizeText(b), ParseJSON(FinalizeText(b))), storeOk)} :
            fin' = [pc |-> "done", method |-> me, db |-> db, body |-> b, status |-> out.status,
                    message |-> out.message, stored |-> out.stored]
    /\ UNCHANGED <<hpc, hreq, hresp, ctx>>
    /\ UNCHANGED <<cleanVars, callVars, decodeVars, concVars>>

NextFinalize == HandleFinalize

SpecFinalize == Init /\ [][NextFinalize]_vars

---------------------------------------------------------------------------
(* Concurrent calls: one call per inbound request, each with its own locals, *)
(* all writing to the standard logger.                                       *)

NumCalls == 2

CallIds == 1..NumCalls

\* the locals of a call that has not started
IdleCall == [pc |-> "idle", req |-> NoReq, resp |-> NoResp, jsonStr |-> <<>>, ret |-> NoRet]

\* the arguments of the concurrent calls
ConcRequests ==
    { [docType |-> JobDetailsType, shape |-> "JobDetails", mimeType |-> "application/pdf",
       fileContent |-> <<37, 80>>],
      [docType |-> Form941Type, shape |-> "Form941", mimeType |-> "application/pdf",
       fileContent |-> <<37, 80>>],
      [docType |-> "tax_form_941", shape |-> "Form941", mimeType |-> "text/plain",
       fileContent |-> <<>>] }

\* what GenerateContent returns to them
ConcResponses ==
    { Response(Cause("quota", "", ""), <<>>),
      Response(NilCause, <<>>),
      Response(NilCause, << <<TextPart(Fenced(TagLower, Object(<<Member(<<"title">>, S("A"))>>)))>> >>),
      Response(NilCause, << <<TextPart(Object(<<Member(<<"Box 4">>, <<"maybe">>)>>))>> >>) }

\* a line written with log.Printf by a call
LogLine(c, format, text) == [call |-> c, format |-> format, text |-> text]

\* a jsonStr kept in one package-level variable: a call reads what the last
\* call to clean a response left there
LocalJsonStr_Shared(c) ==
    LET cleaned == { i \in DOMAIN sharedLog : sharedLog[i].format = "Cleaned JSON response: %s" }
    IN  IF cleaned = {} THEN calls[c].jsonStr
        ELSE sharedLog[CHOOSE i \in cleaned : \A j \in cleaned : j <= i].text

\* jsonStr, a local variable of the call
LocalJsonStr(c) == calls[c].jsonStr

ConcInit ==
    /\ cin = <<>>
    /\ cwrap = "free"
    /\ cbody = <<>>
    /\ cout = <<>>
    /\ cout2 = <<>>
    /\ cstage = "off"
    /\ CallIdle
    /\ DecodeIdle
    /\ HandlerIdle
    /\ calls = [c \in CallIds |-> IdleCall]
    /\ sharedLog = <<>>

\* call c starts: the switch on docType, then the request to the model
ConcCall(c) ==
    /\ calls[c].pc = "idle"
    /\ \E rq \in ConcRequests :
        calls' = [calls EXCEPT ![c] =
                    IF schemaInstruction(rq.docType).ok
                    THEN [@ EXCEPT !.req = rq, !.pc = "awaiting"]
                    ELSE [@ EXCEPT !.req = rq, !.pc = "done",
                                   !.ret = [result |-> Zero(rq.shape),
                                            err |-> ErrUnsupported(rq.docType)]]]
    /\ UNCHANGED sharedLog
    /\ UNCHANGED <<cleanVars, callVars, decodeVars, handlerVars>>

\* GenerateContent returns to call c: the error and content checks, then
\* jsonStr := string(content)
ConcModelReturns(c) ==
    /\ calls[c].pc = "awaiting"
    /\ \E r \in ConcResponses :
        LET fail(err) == [calls[c] EXCEPT !.resp = r, !.pc = "done",
                                          !.ret = [result |-> Zero(calls[c].req.shape),
                                                   err |-> err]]
        IN  calls' = [calls EXCEPT ![c] =
                        IF r.err # NilCause THEN fail(ErrCallingAPI(r.err))
                        ELSE IF noContent(r) THEN fail(ErrNoResponse)
                        ELSE IF ~firstPartIsText(r) THEN fail(ErrUnexpectedFormat)
                        ELSE [@ EXCEPT !.resp = r, !.pc = "texted",
                                       !.jsonStr = r.candidates[1][1].text]]
    /\ UNCHANGED sharedLog
    /\ UNCHANGED <<cleanVars, callVars, decodeVars, handlerVars>>

\* call c cleans its jsonStr and logs it
ConcClean(c) ==
    /\ calls[c].pc = "texted"
    /\ LET cleaned == cleanJSONResponse(calls[c].jsonStr)
       IN  /\ calls' = [calls EXCEPT ![c] = [@ EXCEPT !.jsonStr = cleaned, !.pc = "cleaned"]]
           /\ sharedLog' = Append(sharedLog, LogLine(c, "Cleaned JSON response: %s", cleaned))
    /\ UNCHANGED <<cleanVars, callVars, decodeVars, handlerVars>>

\* call c decodes its jsonStr and returns
ConcDecode(c) ==
    /\ calls[c].pc = "cleaned"
    /\ LET text == LocalJsonStr(c)
           shape == calls[c].req.shape
           u == Unmarshal(shape, text)
       IN  IF u.err # NilCause
           THEN /\ sharedLog' = Append(sharedLog,
                                       LogLine(c, "JSON parsing failed for %T: %v", <<>>))
                /\ calls' = [calls EXCEPT ![c] =
                               [@ EXCEPT !.pc = "done",
                                         !.ret = [result |-> Zero(shape),
                                                  err |-> ErrParsing(TypeName(shape), u.err, text)]]]
           ELSE /\ calls' = [calls EXCEPT ![c] =
                               [@ EXCEPT !.pc = "done",
                                         !.ret = [result |-> u.result, err |-> NilErr]]]
                /\ UNCHANGED sharedLog
    /\ UNCHANGED <<cleanVars, callVars, decodeVars, handlerVars>>

NextConc ==
    \E c \in CallIds :
        \/ ConcCall(c)
        \/ ConcModelReturns(c)
        \/ ConcClean(c)
        \/ ConcDecode(c)

SpecConc == ConcInit /\ [][NextConc]_vars

\* what a call made alone returns for these arguments and this response
ConcOutcome(rq, r) ==
    IF schemaInstruction(rq.docType).ok
    THEN AfterGenerate(rq.shape, r).ret
    ELSE [result |-> Zero(rq.shape), err |-> ErrUnsupported(rq.docType)]

---------------------------------------------------------------------------
(* The decode harness: the call answered with a generated JSON object.  The  *)
(* object holds, in the order of the record's fields, a member for each      *)
(* field or none; for some fields the value varies in kind.                  *)

\* the json keys a well-formed object holds for each record, in order
JobKeys == <<"title", "salary", "location", "experience", "employment-type">>

Form941Keys ==
    <<"EIN", "Name", "Trade Name", "Address", "Box 1", "Box 2", "Box 3", "Box 4",
      "Box 5e", "Box 5f", "Box 6", "Box 7", "Box 8", "Box 9", "Box 10", "Box 11",
      "Box 12", "Box 13", "Box 14">>

SchemaKeys(shape) == IF shape = "JobDetails" THEN JobKeys ELSE Form941Keys

SchemaKeySet(shape) == { SchemaKeys(shape)[i] : i \in DOMAIN SchemaKeys(shape) }

\* the kind the record declares for a key: Box 4 is the one boolean
DeclaredKind(key) == IF key = "Box 4" THEN "bool" ELSE "string"

\* what the model may write for a member: nothing, or a value of some kind
AllOptions == {"absent", "string", "empty", "true", "false", "null", "number"}

\* the fields whose member varies, with the options of each
VariedOptions(shape) ==
    IF shape = "JobDetails"
    THEN [k \in {"title", "salary"} |-> AllOptions]
    ELSE [k \in {"EIN", "Trade Name", "Box 4"} |->
            CASE k = "EIN" -> {"absent", "string", "true", "null"}
              [] k = "Trade Name" -> {"absent", "string", "empty"}
              [] k = "Box 4" -> AllOptions]

\* the JSON text of an option
OptionText(opt) ==
    CASE opt = "string" -> S("x")
      [] opt = "empty" -> Str(<<>>)
      [] opt = "true" -> <<"true">>
      [] opt = "false" -> <<"false">>
      [] opt = "null" -> <<"null">>
      [] opt = "number" -> <<"111">>

\* the JSON kind of an option
OptionKind(opt) ==
    CASE opt \in {"string", "empty"} -> "string"
      [] opt \in {"true", "false"} -> "bool"
      [] opt = "null" -> "null"
      [] opt = "number" -> "number"

\* the Go value an option of the right kind stands for
OptionValue(opt) ==
    CASE opt = "string" -> <<"x">>
      [] opt = "empty" -> <<>>
      [] opt = "true" -> TRUE
      [] opt = "false" -> FALSE

\* the inputs of the harness for a record: the other members all present
\* ("full") or all absent ("sparse"), an option for each varied field, a
\* member the record has no field for ("Box 15") or not, and the keys spelled
\* as the json tags or as the prompt shows them
DecodeInputs(shape) ==
    { [base |-> b, opts |-> o, extra |-> e, spelling |-> sp] :
        b \in {"full", "sparse"},
        o \in { f \in [DOMAIN VariedOptions(shape) -> AllOptions] :
                    \A k \in DOMAIN f : f[k] \in VariedOptions(shape)[k] },
        e \in BOOLEAN,
        sp \in IF shape = "Form941" THEN {"tag", "prompt"} ELSE {"tag"} }

\* whether the object holds a member for the field
Present(shape, d, key) ==
    IF key \in DOMAIN d.opts THEN d.opts[key] # "absent" ELSE d.base = "full"

\* the key as the object spells it
Spelled(d, key) ==
    IF d.spelling = "prompt" /\ key = "Trade Name" THEN "Trade name" ELSE key

\* the member texts of the object from the i-th field on
RECURSIVE DecodeMembers(_, _, _)
DecodeMembers(shape, d, i) ==
    IF i > Len(SchemaKeys(shape))
    THEN IF d.extra THEN <<Member(<<"Box 15">>, S("$121.21"))>> ELSE <<>>
    ELSE LET key == SchemaKeys(shape)[i]
             here == IF ~Present(shape, d, key) THEN <<>>
                     ELSE IF key \in DOMAIN d.opts
                     THEN <<Member(<<Spelled(d, key)>>, OptionText(d.opts[key]))>>
                     ELSE <<Member(<<Spelled(d, key)>>, S("v"))>>
         IN  here \o DecodeMembers(shape, d, i + 1)

\* the text the model answers with
DecodeText(shape, d) == Object(DecodeMembers(shape, d, 1))

\* the state of a call waiting for GenerateContent
Awaiting(docType, shape, mimeType, fileContent) ==
    /\ pc = "awaiting"
    /\ req = [docType |-> docType, shape |-> shape, mimeType |-> mimeType,
              fileContent |-> fileContent]
    /\ sent = [model |-> "gemini-2.0-flash", temperature |-> 0,
               instruction |-> schemaInstruction(docType).prompt, blobMime |-> mimeType,
               blobData |-> fileContent]
    /\ modelCalls = 1
    /\ steps = <<"resolve", "invoke">>
    /\ resp = NoResp
    /\ jsonStr = <<>>
    /\ logs = <<>>
    /\ ret = NoRet

\* a call for each record, made as the parse handler makes it, waits for the model
InitDecode ==
    /\ cin = <<>>
    /\ cwrap = "free"
    /\ cbody = <<>>
    /\ cout = <<>>
    /\ cout2 = <<>>
    /\ cstage = "off"
    /\ \/ Awaiting(JobDetailsType, "JobDetails", "application/pdf", <<37, 80>>)
       \/ Awaiting(Form941Type, "Form941", "application/pdf", <<37, 80>>)
    /\ DecodeIdle
    /\ HandlerIdle
    /\ ConcIdle

\* GenerateContent returns one text part holding a generated object, and the
\* call runs to its return statement
DecodeReply ==
    /\ pc = "awaiting"
    /\ \E d \in DecodeInputs(req.shape) :
        LET r == Response(NilCause, << <<TextPart(DecodeText(req.shape, d))>> >>)
            a == AfterGenerate(req.shape, r)
        IN  /\ din' = d
            /\ resp' = r
            /\ ret' = a.ret
            /\ jsonStr' = a.jsonStr
            /\ steps' = steps \o a.steps
            /\ logs' = logs \o a.logs
            /\ pc' = "done"
    /\ UNCHANGED <<req, sent, modelCalls>>
    /\ UNCHANGED cleanVars
    /\ UNCHANGED <<handlerVars, concVars>>

NextDecode == DecodeReply

SpecDecode == InitDecode /\ [][NextDecode]_vars

---------------------------------------------------------------------------
(* Cancellation: the caller of the parse handler gives up while the model    *)
(* call is pending.                                                          *)

\* a job_details or a form_941 request is being parsed
InitCancel ==
    /\ cin = <<>>
    /\ cwrap = "free"
    /\ cbody = <<>>
    /\ cout = <<>>
    /\ cout2 = <<>>
    /\ cstage = "off"
    /\ hpc = "parsing"
    /\ \E dp \in {<<"job_details">>, <<"form_941">>} :
          /\ hreq = [method |-> "POST", hasFile |-> TRUE, readable |-> TRUE,
                     filename |-> <<"form", ".PDF">>, fileContent |-> <<37, 80>>,
                     docTypeParam |-> dp]
          /\ Awaiting(HandlerDocType(dp[1]), HandlerShape(HandlerDocType(dp[1])),
                      "application/pdf", <<37, 80>>)
    /\ hresp = NoHttpResponse
    /\ ctx = [request |-> "live", call |-> CallContext("request")]
    /\ fin = NoFinalize
    /\ DecodeIdle
    /\ ConcIdle

\* the client goes away or its deadline passes: r.Context() is cancelled
CallerCancels ==
    /\ hpc = "parsing"
    /\ pc = "awaiting"
    /\ ctx.request = "live"
    /\ ctx' = [ctx EXCEPT !.request = "cancelled"]
    /\ UNCHANGED <<hpc, hreq, hresp, fin>>
    /\ UNCHANGED <<cleanVars, callVars, decodeVars, concVars>>

\* the context GenerateContent was given is cancelled
CallCtxCancelled == ctx.call = "request" /\ ctx.request = "cancelled"

\* GenerateContent gives up on its cancelled context and returns its error
CallCancelled ==
    /\ pc = "awaiting"
    /\ CallCtxCancelled
    /\ LET r == Response(Cause("context.Canceled", "", ""), <<>>)
           a == AfterGenerate(req.shape, r)
       IN  /\ resp' = r
           /\ ret' = a.ret
           /\ jsonStr' = a.jsonStr
           /\ steps' = steps \o a.steps
           /\ logs' = logs \o a.logs
           /\ pc' = "done"
    /\ UNCHANGED <<req, sent, modelCalls>>
    /\ UNCHANGED <<cleanVars, decodeVars, handlerVars, concVars>>

\* GenerateContent returns while its context is not cancelled
LiveModelReturns == ~CallCtxCancelled /\ ModelReturns

NextCancel == CallerCancels \/ CallCancelled \/ LiveModelReturns \/ HandlerRespond

\* a call whose context is cancelled does return
SpecCancel == InitCancel /\ [][NextCancel]_vars /\ WF_vars(CallCancelled)

---------------------------------------------------------------------------
(* Properties of cleanJSONResponse, checked under SpecClean. *)

\* C1: sanitization is idempotent: cleaning a cleaned text changes nothing,
\* cleanJSONResponse(cleanJSONResponse(x)) = cleanJSONResponse(x) for every x.
C1_Idempotent == cstage = "twice" => cout2 = cout

\* C2: round trip: a compact JSON object wrapped in a fence with the json tag,
\* wrapped in a fence without tag, or not wrapped at all, is cleaned to exactly
\* that object.
C2_RoundTrip ==
    (cstage # "in" /\ cwrap \in {"fence-json", "fence", "bare"}) => cout = cbody

\* C2 witness: an object with members, fenced with the json tag, came out bare.
C2_Witness ==
    /\ cstage = "cleaned"
    /\ cwrap = "fence-json"
    /\ Len(cbody) > 2
    /\ cin # cbody
    /\ cout = cbody

\* C3: the opening fence is stripped whatever the letter case of its tag and
\* whether or not a tag follows: fenced with JSON, Json, json or no tag, the
\* object is cleaned to exactly that object.
C3_CaseIndependentFence ==
    (cstage # "in" /\ cwrap \in {"fence-JSON", "fence-Json", "fence-json", "fence"})
        => cout = cbody

\* C4 as stated: an input that holds no fence marker is returned unchanged.
C4_NoOpUnfenced == (cstage # "in" /\ ~HasFence(cin)) => cout = cin

\* C4 amended: an input that holds no fence marker is returned with its
\* leading and trailing white space removed and nothing else changed: the
\* result has no white space at either end, and the input is the result with
\* only white space before and after it.
C4_UnfencedOnlyTrimmed ==
    (cstage # "in" /\ ~HasFence(cin)) =>
        /\ cout = <<>> \/ (cout[1] \notin WhiteSpace /\ cout[Len(cout)] \notin WhiteSpace)
        /\ \E a \in 0..(Len(cin) - Len(cout)) :
            /\ \A i \in 1..a : cin[i] \in WhiteSpace
            /\ SubSeq(cin, a + 1, a + Len(cout)) = cout
            /\ \A i \in (a + Len(cout) + 1)..Len(cin) : cin[i] \in WhiteSpace

\* C4 witness: an unfenced input with white space around a text was cleaned.
C4_Witness ==
    /\ cstage = "cleaned"
    /\ ~HasFence(cin)
    /\ cin # <<>> /\ cin[1] \in WhiteSpace /\ cin[Len(cin)] \in WhiteSpace
    /\ cout # <<>>
    /\ cout # cin

---------------------------------------------------------------------------
(* Properties of one extraction call, checked under Spec. *)

\* the steps of the function body that ran, as a set
StepsRun == { steps[i] : i \in DOMAIN steps }

\* the call made the model invocation and it returned without error
Replied == pc = "done" /\ modelCalls = 1 /\ resp.err = NilCause

\* C5: a call whose document type has no registered schema returns the
\* unsupported-document-type error (with the zero result) and invokes the
\* model zero times.
C5_UnsupportedShortCircuits ==
    (pc # "idle" /\ req.docType \notin {"job_details", "form_941"}) =>
        /\ pc = "done"
        /\ ret.err.format = "unsupported document type: %s"
        /\ ret.err.docType = req.docType
        /\ ret.result = Zero(req.shape)
        /\ modelCalls = 0
        /\ sent = NoSent
        /\ steps = <<"resolve">>

\* C5 witness: the call with docType unknown_type has returned the error.
C5_Witness ==
    /\ pc = "done"
    /\ req.docType = "unknown_type"
    /\ ret.err.format = "unsupported document type: %s"
    /\ modelCalls = 0

\* C6: a call with a registered document type invokes the model exactly once,
\* whatever the outcome, and no call invokes it more than once.
C6_ModelInvokedOnce ==
    /\ modelCalls <= 1
    /\ (pc # "idle" /\ req.docType \in {"job_details", "form_941"}) => modelCalls = 1

\* C6 witness: a call with a registered type ended in a failure of the model
\* invocation, with one invocation made.
C6_Witness ==
    /\ pc = "done"
    /\ req.docType = "form_941"
    /\ resp.err # NilCause
    /\ ret.err # NilErr
    /\ modelCalls = 1

\* C7: when the model invocation fails, the call returns the model-invocation
\* error wrapping the underlying cause, and neither cleans nor decodes.
C7_ModelFailureWrapsCause ==
    (pc = "done" /\ resp.err # NilCause) =>
        /\ ret.err.format = "error calling Gemini AI API: %w"
        /\ ret.err.wrapped = resp.err
        /\ ret.result = Zero(req.shape)
        /\ StepsRun \cap {"checkEmpty", "checkText", "sanitize", "decode"} = {}
        /\ jsonStr = <<>>
        /\ logs = <<>>

\* C7 witness: the invocation failed on quota and the error returned wraps it.
C7_Witness ==
    /\ pc = "done"
    /\ resp.err = Cause("quota", "", "")
    /\ ret.err.wrapped = Cause("quota", "", "")

\* C8: when the model returns zero candidates, or a first candidate with zero
\* content parts, the call returns the empty-model-response error.
C8_EmptyResponse ==
    (Replied /\ (Len(resp.candidates) = 0 \/ Len(resp.candidates[1]) = 0)) =>
        /\ ret.err.format = "no response from Gemini AI API"
        /\ ret.result = Zero(req.shape)

\* C8 witness: the first candidate had no parts (a second one had a text) and
\* the error was returned.
C8_Witness ==
    /\ Replied
    /\ Len(resp.candidates) = 2
    /\ Len(resp.candidates[1]) = 0
    /\ Len(resp.candidates[2]) > 0
    /\ ret.err.format = "no response from Gemini AI API"

\* C9: when the first content part of the first candidate is not plain text,
\* the call returns the unexpected-response-format error, whatever the later
\* parts hold.
C9_NonTextFirstPart ==
    (Replied /\ Len(resp.candidates) > 0 /\ Len(resp.candidates[1]) > 0
        /\ resp.candidates[1][1].kind # "text") =>
        /\ ret.err.format = "unexpected response format from Gemini AI API"
        /\ ret.result = Zero(req.shape)
        /\ StepsRun \cap {"sanitize", "decode"} = {}

\* C9 witness: the first part was a blob, the second a text holding a valid
\* object, and the format error was returned.
C9_Witness ==
    /\ Replied
    /\ Len(resp.candidates) > 0
    /\ Len(resp.candidates[1]) = 2
    /\ resp.candidates[1][1].kind = "blob"
    /\ resp.candidates[1][2] = TextPart(JobObject)
    /\ ret.err.format = "unexpected response format from Gemini AI API"

\* C10: when the cleaned text fails to decode, the error returned carries the
\* name of the target record type, the cause json.Unmarshal reported (a syntax
\* error or a type mismatch) and the exact cleaned text that failed.
C10_DecodeErrorCarriesContext ==
    (Replied /\ "decode" \in StepsRun /\ ret.err # NilErr) =>
        /\ ret.err.format = "error parsing Gemini AI response for %T: %w\nResponse: %s"
        /\ ret.err.typeName = (IF req.shape = "JobDetails" THEN "models.JobDetails" ELSE "models.Form941")
        /\ ret.err.wrapped.type \in {"json.SyntaxError", "json.UnmarshalTypeError"}
        /\ ret.err.response = jsonStr
        /\ jsonStr = cleanJSONResponse(resp.candidates[1][1].text)
        /\ Unmarshal(req.shape, ret.err.response).err = ret.err.wrapped

\* C10 witness: a fenced Form 941 answer with an invalid Box 4 failed to decode
\* with a syntax error, and the error holds the text without its fence.
C10_Witness ==
    /\ Replied
    /\ req.shape = "Form941"
    /\ "decode" \in StepsRun
    /\ resp.candidates[1][1].text = Fenced(TagLower, Form941Object(<<"maybe">>))
    /\ ret.err.typeName = "models.Form941"
    /\ ret.err.wrapped.type = "json.SyntaxError"
    /\ ret.err.response = Form941Object(<<"maybe">>)

---------------------------------------------------------------------------
(* Properties of decoding, checked under SpecDecode. *)

DecodeFormat == "error parsing Gemini AI response for %T: %w\nResponse: %s"

\* the call was answered with a generated object and has returned
Decoded == pc = "done" /\ din # NoDecodeInput

\* the fields of the record the object holds no member for
MissingKeys == { k \in SchemaKeySet(req.shape) : ~Present(req.shape, din, k) }

\* the varied fields whose member holds a value of another kind than the
\* field's (null is no kind of value)
MismatchedKeys ==
    { k \in DOMAIN din.opts :
        /\ din.opts[k] \notin {"absent", "null"}
        /\ OptionKind(din.opts[k]) # DeclaredKind(k) }

\* the zero value of a field
IsZero(k, v) == IF DeclaredKind(k) = "bool" THEN v = FALSE ELSE v = <<>>

\* C11 (as stated): decoding a JSON object that is missing a field of the
\* target schema yields a decode error, never a success with a defaulted field.
C11_MissingFieldIsError ==
    (Decoded /\ MissingKeys # {}) => ret.err.format = DecodeFormat

\* C11 (amended): a missing field is no decode failure.  When no member
\* present holds a value of the wrong kind, decoding an object that lacks
\* fields succeeds and each missing field holds its zero value.
C11_MissingFieldIsZero ==
    (Decoded /\ MissingKeys # {} /\ MismatchedKeys = {}) =>
        /\ ret.err = NilErr
        /\ \A k \in MissingKeys :
              /\ k \in DOMAIN ret.result
              /\ IsZero(k, ret.result[k])

\* C11 witness: a Form 941 object holding an EIN member only decoded without
\* error, with Box 4 false and Name empty.
C11_Witness ==
    /\ Decoded
    /\ req.shape = "Form941"
    /\ din.base = "sparse"
    /\ ~din.extra
    /\ din.opts["EIN"] = "string"
    /\ din.opts["Box 4"] = "absent"
    /\ din.opts["Trade Name"] = "absent"
    /\ ret.err = NilErr
    /\ ret.result["EIN"] = <<"x">>
    /\ ret.result["Box 4"] = FALSE
    /\ ret.result["Name"] = <<>>

\* C12: an object whose value for a boolean field is a string, or whose value
\* for a string field is a boolean, yields a decode error caused by a type
\* mismatch together with the zero record, never a partly filled success.
C12_TypeMismatchFails ==
    (Decoded /\ \E k \in MismatchedKeys : OptionKind(din.opts[k]) \in {"string", "bool"}) =>
        /\ ret.err.format = DecodeFormat
        /\ ret.err.wrapped.type = "json.UnmarshalTypeError"
        /\ DOMAIN ret.result = SchemaKeySet(req.shape)
        /\ \A k \in SchemaKeySet(req.shape) : IsZero(k, ret.result[k])

\* C12 witness: a Form 941 object with a string for Box 4 and a proper EIN
\* failed on Box 4, and the record returned does not hold the EIN.
C12_Witness ==
    /\ Decoded
    /\ req.shape = "Form941"
    /\ din.opts["Box 4"] = "string"
    /\ din.opts["EIN"] = "string"
    /\ ret.err.format = DecodeFormat
    /\ ret.err.wrapped = Cause("json.UnmarshalTypeError", "string", "Box 4")
    /\ ret.result["EIN"] = <<>>

\* C13: a record returned without error has exactly the keys of its schema: a
\* key the object omitted is there with the zero value, and a key the schema
\* does not have is not there.
C13_ResultHasSchemaKeys ==
    (Decoded /\ ret.err = NilErr) =>
        /\ DOMAIN ret.result = SchemaKeySet(req.shape)
        /\ \A k \in MissingKeys : IsZero(k, ret.result[k])
        /\ din.extra => "Box 15" \notin DOMAIN ret.result

\* C13 witness: an object with an unknown Box 15 member and without a title
\* decoded without error.
C13_Witness ==
    /\ Decoded
    /\ req.shape = "JobDetails"
    /\ din.extra
    /\ din.base = "full"
    /\ din.opts["title"] = "absent"
    /\ din.opts["salary"] = "string"
    /\ ret.err = NilErr
    /\ ret.result["title"] = <<>>
    /\ ret.result["location"] = <<"v">>

\* the object holds exactly the keys of the schema, each with a value of the
\* field's kind
WellFormed ==
    /\ din.base = "full"
    /\ ~din.extra
    /\ din.spelling = "tag"
    /\ \A k \in DOMAIN din.opts :
          /\ din.opts[k] \notin {"absent", "null"}
          /\ OptionKind(din.opts[k]) = DeclaredKind(k)

\* C14: decoding a well-formed object never fails, and every field of the
\* record equals the value the object gave for it.
C14_WellFormedDecodes ==
    (Decoded /\ WellFormed) =>
        /\ ret.err = NilErr
        /\ DOMAIN ret.result = SchemaKeySet(req.shape)
        /\ \A k \in SchemaKeySet(req.shape) :
              ret.result[k] = (IF k \in DOMAIN din.opts THEN OptionValue(din.opts[k]) ELSE <<"v">>)

\* C14 witness: a complete Form 941 object with Box 4 true and an empty trade
\* name decoded into a record holding these values.
C14_Witness ==
    /\ Decoded
    /\ WellFormed
    /\ req.shape = "Form941"
    /\ din.opts["Box 4"] = "true"
    /\ din.opts["Trade Name"] = "empty"
    /\ ret.err = NilErr
    /\ ret.result["Box 4"] = TRUE
    /\ ret.result["Trade Name"] = <<>>
    /\ ret.result["Box 5f"] = <<"v">>

---------------------------------------------------------------------------
(* Properties of whole calls, checked under Spec. *)

\* C15: a job_details call answered with a single text part that holds the
\* five job fields in a json fence returns no error and a record whose five
\* fields are the values of the answer, unchanged.
C15_JobDetailsEndToEnd ==
    (/\ pc = "done"
     /\ req.docType = "job_details"
     /\ req.shape = "JobDetails"
     /\ resp = Response(NilCause, << <<TextPart(Fenced(TagLower, JobObject))>> >>)) =>
        /\ ret.err = NilErr
        /\ ret.result = ("title" :> <<"Engineer">>) @@ ("salary" :> <<>>) @@
                         ("location" :> <<"NYC">>) @@ ("experience" :> <<>>) @@
                         ("employment-type" :> <<"Full-time">>)

\* C15 witness: such a call has returned, and the title is the answer's.
C15_Witness ==
    /\ pc = "done"
    /\ req.docType = "job_details"
    /\ req.shape = "JobDetails"
    /\ resp = Response(NilCause, << <<TextPart(Fenced(TagLower, JobObject))>> >>)
    /\ jsonStr = JobObject
    /\ ret.result["title"] = <<"Engineer">>

\* the text holds the bare word maybe
HasMaybe(text) == \E i \in DOMAIN text : text[i] = "maybe"

\* C16 (as stated): a call with document type tax_form_941 ends in a decode
\* error.
C16_TaxForm941DecodeError ==
    (pc = "done" /\ req.docType = "tax_form_941" /\ req.shape = "Form941") =>
        ret.err.format = "error parsing Gemini AI response for %T: %w\nResponse: %s"

\* C16 (amended): the Form 941 document type is form_941.  A form_941 call
\* decoding into Form941 whose answer holds maybe as the value of Box 4 returns
\* a decode error that names models.Form941, wraps a syntax error and holds
\* the cleaned text with the offending word; a tax_form_941 call returns the
\* unsupported-document-type error and never reaches the model.
C16_Form941DecodeError ==
    /\ (/\ Replied
        /\ "decode" \in StepsRun
        /\ req.docType = "form_941"
        /\ req.shape = "Form941"
        /\ HasMaybe(resp.candidates[1][1].text)) =>
            /\ ret.err.format = "error parsing Gemini AI response for %T: %w\nResponse: %s"
            /\ ret.err.typeName = "models.Form941"
            /\ ret.err.wrapped.type = "json.SyntaxError"
            /\ HasMaybe(ret.err.response)
            /\ ret.err.response = cleanJSONResponse(resp.candidates[1][1].text)
    /\ (pc = "done" /\ req.docType = "tax_form_941") =>
            /\ ret.err.format = "unsupported document type: %s"
            /\ ret.err.docType = "tax_form_941"
            /\ modelCalls = 0

\* C16 witness: a form_941 call answered with maybe for Box 4 has returned the
\* decode error for models.Form941.
C16_Witness ==
    /\ Replied
    /\ "decode" \in StepsRun
    /\ req.docType = "form_941"
    /\ req.shape = "Form941"
    /\ HasMaybe(resp.candidates[1][1].text)
    /\ ret.err.typeName = "models.Form941"
    /\ HasMaybe(ret.err.response)

\* C17 (as stated): job_details and tax_form_941 each resolve to a prompt and
\* are not answered with the unsupported-document-type error.
C17_RecognizedAsStated ==
    (pc # "idle" /\ req.docType \in {"job_details", "tax_form_941"}) =>
        /\ sent.instruction \in {jobDetailsPrompt, form941Prompt}
        /\ ret.err.format # "unsupported document type: %s"

\* C17 (amended): the recognized document types are job_details and form_941.
\* Either resolves to exactly one prompt, its own, and is not answered with
\* the unsupported-document-type error; every other value is.
C17_RecognizedValues ==
    /\ (pc # "idle" /\ req.docType = "job_details") =>
            /\ sent.instruction = jobDetailsPrompt
            /\ ret.err.format # "unsupported document type: %s"
    /\ (pc # "idle" /\ req.docType = "form_941") =>
            /\ sent.instruction = form941Prompt
            /\ ret.err.format # "unsupported document type: %s"
    /\ (pc # "idle" /\ req.docType \notin {"job_details", "form_941"}) =>
            /\ sent.instruction = NoPrompt
            /\ ret.err.format = "unsupported document type: %s"

\* C17 witness: a form_941 call waits for the model with the Form 941 prompt.
C17_Witness ==
    /\ pc = "awaiting"
    /\ req.docType = "form_941"
    /\ sent.instruction = form941Prompt
    /\ modelCalls = 1

---------------------------------------------------------------------------
(* Properties of the parse handler, checked under SpecHandler. *)

\* the handler got a file it could read, so it went on to the document type
FileRead == hpc # "idle" /\ hreq.method = "POST" /\ hreq.hasFile /\ hreq.readable

\* C18: a request whose document_type parameter is absent, empty or anything
\* but job_details is extracted as Form 941: the call gets Form941Type, the
\* Form 941 record and the Form 941 prompt; neither the call nor the handler
\* answers that the type is unsupported; the success response names form_941.
C18_HandlerDefaultsToForm941 ==
    (FileRead /\ hreq.docTypeParam # <<"job_details">>) =>
        /\ req.docType = "form_941"
        /\ req.shape = "Form941"
        /\ sent.instruction = form941Prompt
        /\ ret.err.format # "unsupported document type: %s"
        /\ hresp.message # "Unsupported document type: "
        /\ (hpc = "done" /\ ret.err = NilErr) =>
              /\ hresp.status = 200
              /\ hresp.documentType = "form_941"

\* C18 witness: a request with document_type tax_form_941 was answered with
\* a Form 941 record under the type form_941.
C18_Witness ==
    /\ FileRead
    /\ hpc = "done"
    /\ hreq.docTypeParam = <<"tax_form_941">>
    /\ hresp.status = 200
    /\ hresp.documentType = "form_941"
    /\ hresp.parsedResult["Box 4"] = TRUE

\* C19: a call that returns an error returns the zero record with it, so a
\* call ends with a record and no error or with an error and the zero record;
\* a call that logged a decode failure returns that error, and the handler
\* answers a failed call with status 500 and a successful one with its record.
C19_AllOrNothing ==
    /\ (pc = "done" /\ ret.err # NilErr) =>
            /\ DOMAIN ret.result = SchemaKeySet(req.shape)
            /\ \A k \in SchemaKeySet(req.shape) : IsZero(k, ret.result[k])
    /\ (pc = "done" /\ ret.err = NilErr) =>
            DOMAIN ret.result = SchemaKeySet(req.shape)
    /\ (\E i \in DOMAIN logs : logs[i] = "JSON parsing failed for %T: %v") =>
            /\ pc = "done"
            /\ ret.err.format = "error parsing Gemini AI response for %T: %w\nResponse: %s"
    /\ (FileRead /\ hpc = "done" /\ ret.err # NilErr) =>
            /\ hresp.status = 500
            /\ hresp.errText = ret.err
            /\ hresp.parsedResult = <<>>
    /\ (FileRead /\ hpc = "done" /\ hresp.status = 200) =>
            /\ ret.err = NilErr
            /\ hresp.parsedResult = ret.result
            /\ \A i \in DOMAIN logs : logs[i] = "Cleaned JSON response: %s"

\* C19 witness: json.Unmarshal filled the EIN and then rejected Box 4; the
\* call returned the error with an empty EIN, both failures were logged, and
\* the handler answered 500.
C19_Witness ==
    /\ FileRead
    /\ hpc = "done"
    /\ ret.err.wrapped = Cause("json.UnmarshalTypeError", "string", "Box 4")
    /\ Unmarshal("Form941", jsonStr).result["EIN"] = <<"123456789">>
    /\ ret.result["EIN"] = <<>>
    /\ logs = <<"Cleaned JSON response: %s", "JSON parsing failed for %T: %v",
                "Multimodal approach failed: %v. Falling back to text-based approach.">>
    /\ hresp.status = 500

---------------------------------------------------------------------------
(* Properties of concurrent calls, checked under SpecConc. *)

\* C20: in every interleaving, a call that has returned returns what a call
\* made alone returns for its own arguments and its own model response, and
\* every line a call logged holds its own cleaned text.
C20_CallsIndependent ==
    /\ \A c \in CallIds :
          calls[c].pc = "done" => calls[c].ret = ConcOutcome(calls[c].req, calls[c].resp)
    /\ \A i \in DOMAIN sharedLog :
          sharedLog[i].format = "Cleaned JSON response: %s" =>
              sharedLog[i].text = cleanJSONResponse(calls[sharedLog[i].call].resp.candidates[1][1].text)

\* C20 witness: call 2 cleaned its answer between the cleaning and the decoding
\* of call 1; call 1 failed on its own text and call 2 decoded its own title.
C20_Witness ==
    /\ calls[1].pc = "done"
    /\ calls[2].pc = "done"
    /\ Len(sharedLog) = 3
    /\ sharedLog[1].call = 1
    /\ sharedLog[2].call = 2
    /\ sharedLog[3] = LogLine(1, "JSON parsing failed for %T: %v", <<>>)
    /\ calls[1].ret.err.wrapped.type = "json.SyntaxError"
    /\ calls[2].ret.err = NilErr
    /\ calls[2].ret.result["title"] = <<"A">>

---------------------------------------------------------------------------
(* Properties of the instruction and of the schemas, checked under Spec. *)

\* C21: the instruction sent to the model is determined by the document type
\* alone, whatever the file and its media type, and the file bytes and the
\* media type reach the model unchanged as the blob part next to it.
C21_InstructionFromDocTypeOnly ==
    (pc # "idle" /\ req.docType \in {"job_details", "form_941"}) =>
        /\ sent.instruction = (IF req.docType = "job_details" THEN jobDetailsPrompt
                               ELSE form941Prompt)
        /\ sent.blobMime = req.mimeType
        /\ sent.blobData = req.fileContent

\* C21 witness: a form_941 call for an empty text/plain file sent the Form 941
\* prompt, and the empty text/plain blob next to it.
C21_Witness ==
    /\ pc = "awaiting"
    /\ req.docType = "form_941"
    /\ req.mimeType = "text/plain"
    /\ req.fileContent = <<>>
    /\ sent.instruction = form941Prompt
    /\ sent.blobMime = "text/plain"
    /\ sent.blobData = <<>>

\* the keys the instruction sent shows in its JSON structure
InstructionKeys == { sent.instruction.keys[i] : i \in DOMAIN sent.instruction.keys }

\* C22: the instruction of a registered document type shows exactly the JSON
\* keys of that type's record: every key of the record, and no other key.
C22_InstructionKeysAreRecordKeys ==
    (pc # "idle" /\ req.docType \in {"job_details", "form_941"}) =>
        InstructionKeys = SchemaKeySet(IF req.docType = "job_details" THEN "JobDetails"
                                       ELSE "Form941")

\* C23: the record a registered document type resolves to has at least one
\* field, and no two of its fields have the same JSON key.
C23_SchemaFieldsUnique ==
    (pc # "idle" /\ req.docType \in {"job_details", "form_941"}) =>
        LET f == Fields(HandlerShape(req.docType))
        IN  /\ Len(f) > 0
            /\ \A i, j \in DOMAIN f : f[i].key = f[j].key => i = j

\* C23 witness: a form_941 call decoding into Form941 returned a record with
\* nineteen keys, one for each field.
C23_Witness ==
    /\ pc = "done"
    /\ req.docType = "form_941"
    /\ req.shape = "Form941"
    /\ ret.err = NilErr
    /\ Len(Fields("Form941")) = 19
    /\ Cardinality(DOMAIN ret.result) = 19

---------------------------------------------------------------------------
(* Properties of cancellation, checked under SpecCancel. *)

\* C24: the context the model call gets is the context of the inbound
\* request, and when the request is cancelled while the model call is pending
\* the call returns the model-invocation error that wraps the cancellation.
C24_ContextPropagated ==
    /\ [](pc # "idle" => ctx.call = "request")
    /\ (pc = "awaiting" /\ ctx.request = "cancelled") ~>
          (/\ pc = "done"
           /\ ret.err.format = "error calling Gemini AI API: %w"
           /\ ret.err.wrapped.type = "context.Canceled")

\* C24 witness: the request was cancelled, the call returned the cancellation
\* wrapped in the model-invocation error, and the handler answered 500.
C24_Witness ==
    /\ ctx = [request |-> "cancelled", call |-> "request"]
    /\ pc = "done"
    /\ modelCalls = 1
    /\ ret.err.wrapped.type = "context.Canceled"
    /\ hresp.status = 500

---------------------------------------------------------------------------
(* The order of the steps of one extraction call, checked under Spec. *)

\* the steps of ParseDocumentWithGeminiMultimodal in the order of its body
PipelineOrder == <<"resolve", "invoke", "checkEmpty", "checkText", "sanitize", "decode">>

\* the number of steps a returned call ran, from what it was given and what
\* the model answered: up to and including the first step that fails
StepsUntilFailure ==
    IF req.docType \notin {"job_details", "form_941"} THEN 1
    ELSE IF resp.err # NilCause THEN 2
    ELSE IF Len(resp.candidates) = 0 \/ Len(resp.candidates[1]) = 0 THEN 3
    ELSE IF resp.candidates[1][1].kind # "text" THEN 4
    ELSE 6

\* C26: the steps of a call run in the order schema resolution, model
\* invocation, empty-response check, text-part check, sanitation, decoding, and
\* stop at the first step that fails; the error returned is that step's, and
\* nothing is cleaned, logged or decoded when an earlier step failed.
C26_StepsInFixedOrder ==
    /\ \E n \in 0..Len(PipelineOrder) : steps = SubSeq(PipelineOrder, 1, n)
    /\ pc = "awaiting" => steps = SubSeq(PipelineOrder, 1, 2)
    /\ pc = "done" =>
          /\ steps = SubSeq(PipelineOrder, 1, StepsUntilFailure)
          /\ ret.err.format =
                (CASE Len(steps) = 1 -> "unsupported document type: %s"
                   [] Len(steps) = 2 -> "error calling Gemini AI API: %w"
                   [] Len(steps) = 3 -> "no response from Gemini AI API"
                   [] Len(steps) = 4 -> "unexpected response format from Gemini AI API"
                   [] OTHER -> IF ret.err = NilErr THEN NilErr.format
                               ELSE "error parsing Gemini AI response for %T: %w\nResponse: %s")
          /\ Len(steps) < 5 => (jsonStr = <<>> /\ logs = <<>> /\ ret.err # NilErr)

\* C26 witness: a call stopped at the empty-response check although the
\* second candidate held a text.
C26_Witness ==
    /\ pc = "done"
    /\ steps = <<"resolve", "invoke", "checkEmpty">>
    /\ Len(resp.candidates) = 2
    /\ Len(resp.candidates[2]) > 0
    /\ resp.candidates[2][1].kind = "text"
    /\ jsonStr = <<>>

---------------------------------------------------------------------------
(* The parse handler after a failed call, checked under SpecHandler. *)

C28_ShapeAgreesWithDocType ==
    /\ hpc # "idle" => hresp.message # "Unsupported document type: "
    /\ (hpc # "idle" /\ pc # "idle") =>
          /\ <<req.docType, req.shape>> \in
                { <<"job_details", "JobDetails">>, <<"form_941", "Form941">> }
          /\ sent.instruction =
                (IF req.shape = "JobDetails" THEN jobDetailsPrompt ELSE form941Prompt)
          /\ (pc = "done" /\ ret.err = NilErr) =>
                DOMAIN ret.result =
                    (IF req.docType = "job_details" THEN { JobDetailsFields[i].key : i \in DOMAIN JobDetailsFields }
                     ELSE { Form941Fields[i].key : i \in DOMAIN Form941Fields })
          /\ (pc = "done" /\ "decode" \in StepsRun /\ ret.err # NilErr) =>
                ret.err.typeName =
                    (IF req.docType = "job_details" THEN "models.JobDetails" ELSE "models.Form941")

\* C28 witness: a job_details request was sent with the job details prompt,
\* decoded into the job details record and answered 200.
C28_Witness ==
    /\ hpc = "done"
    /\ hreq.docTypeParam = <<"job_details">>
    /\ req.shape = "JobDetails"
    /\ sent.instruction = jobDetailsPrompt
    /\ ret.err = NilErr
    /\ hresp.status = 200
    /\ hresp.documentType = "job_details"

---------------------------------------------------------------------------
(* The ends of the cleaned text, checked under SpecClean. *)

\* C29: whatever the input, fenced or not, the text cleanJSONResponse returns
\* neither begins nor ends with white space, and neither does the text it
\* returns when applied again.
C29_NoSurroundingWhiteSpace ==
    /\ cstage # "in" =>
          cout = <<>> \/ (cout[1] \notin WhiteSpace /\ cout[Len(cout)] \notin WhiteSpace)
    /\ cstage = "twice" =>
          cout2 = <<>> \/ (cout2[1] \notin WhiteSpace /\ cout2[Len(cout2)] \notin WhiteSpace)

\* C29 witness: an input with a blank before its text and a blank between the
\* text and the closing fence was cleaned to the text alone.
C29_Witness ==
    /\ cstage = "cleaned"
    /\ cin = <<" ", "x", " ">> \o Fence
    /\ cout = <<"x">>

---------------------------------------------------------------------------
(* Keys matched without regard to case, checked under SpecDecode. *)

\* C30: a Form 941 answer that spells the key as the prompt shows it, Trade
\* name, and decodes without error fills the field declared with the key
\* Trade Name with the member's string; the field is not left empty.
C30_TradeNameMatchedByFold ==
    (pc = "done" /\ req.shape = "Form941" /\ ret.err = NilErr) =>
        LET ms == ParseJSON(jsonStr).val.members IN
        \A i \in DOMAIN ms :
            (ms[i].key = <<"Trade name">> /\ ms[i].val.kind = "string") =>
                /\ \A j \in DOMAIN ms : ms[j].key # <<"Trade Name">>
                /\ ret.result["Trade Name"] = ms[i].val.str

\* C30 witness: the answer held the member Trade name with the string x next
\* to all other members, and the record returned holds x as its Trade Name.
C30_Witness ==
    /\ pc = "done"
    /\ req.shape = "Form941"
    /\ din.spelling = "prompt"
    /\ din.base = "full"
    /\ din.opts["Trade Name"] = "string"
    /\ \E i \in DOMAIN form941Prompt.keys : form941Prompt.keys[i] = "Trade name"
    /\ ret.err = NilErr
    /\ ret.result["Trade Name"] = <<"x">>

---------------------------------------------------------------------------
(* Properties of the finalize handler, checked under SpecFinalize. *)

\* C25: a POST request reaches the store exactly when the database handle is
\* there, the body decodes, document_name is not empty and parsed_fields is
\* given; then the store is called once with the three fields of the body as
\* they are.  Every other request is answered 503 when the database handle is
\* missing and 400 otherwise, and the store is not called.
C25_FinalizeReachesStore ==
    (fin.pc = "done" /\ fin.method = "POST") =>
        LET b == fin.body
            accepted == /\ fin.db = "open"
                        /\ b.form = "object"
                        /\ b.name = "doc"
                        /\ b.type # "number"
                        /\ b.pf # "absent"
        IN  /\ Len(fin.stored) = (IF accepted THEN 1 ELSE 0)
            /\ ~accepted => fin.status = (IF fin.db = "nil" THEN 503 ELSE 400)
            /\ accepted =>
                  /\ fin.status \in {200, 500}
                  /\ fin.stored[1].documentName = <<"doc.pdf">>
                  /\ fin.stored[1].documentType =
                        (IF b.type = "form_941" THEN <<"form_941">> ELSE <<>>)
                  /\ Len(fin.stored[1].parsedFields) = 1
                  /\ fin.stored[1].parsedFields[1].kind =
                        (CASE b.pf = "string" -> "string"
                           [] b.pf = "null" -> "null"
                           [] OTHER -> "object")
                  /\ b.pf = "string" => fin.stored[1].parsedFields[1].str = <<"x">>
                  /\ b.pf = "emptyobject" => fin.stored[1].parsedFields[1].members = <<>>
                  /\ b.pf = "object" =>
                        /\ Len(fin.stored[1].parsedFields[1].members) = 1
                        /\ fin.stored[1].parsedFields[1].members[1].key = <<"EIN">>
                        /\ fin.stored[1].parsedFields[1].members[1].val.str = <<"12">>

\* C25 witness: a complete request was stored and answered 200.
C25_Witness ==
    /\ fin.pc = "done"
    /\ fin.method = "POST"
    /\ fin.db = "open"
    /\ fin.body = [form |-> "object", pf |-> "object", name |-> "doc", type |-> "form_941"]
    /\ fin.status = 200
    /\ Len(fin.stored) = 1
    /\ fin.stored[1].documentType = <<"form_941">>

=============================================================================
